---- MODULE Spec2Model ----
(***************************************************************************)
(* Model of the question-answering pipeline of metrotechnet/multi-agent:   *)
(* the pattern-based risk gate (refusal_engine), the session store, the    *)
(* streaming query orchestrator (query_agent / generate /                  *)
(* ask_question_stream), the post-response classifier and the reference    *)
(* lookup endpoint (get_pmids_api).                                        *)
(*                                                                         *)
(* Text is a sequence of tokens (words and the whitespace token " ");      *)
(* Python's "" is << >>.  Accented letters are written unaccented.         *)
(***************************************************************************)
EXTENDS Integers, Sequences, FiniteSets, TLC

(***************************************************************************)
(* Bounds of the model                                                     *)
(***************************************************************************)
NReq == 2          \* number of /query requests
MaxTime == 3       \* the clock runs over 0..MaxTime (hours)
MaxWords == 3      \* words of a question handed to the risk gate
NLog == 2          \* concurrent calls of the log functions
MaxFrags == 2      \* fragments of one answer of the generation backend
MaxHistory == 8   \* entries of a session older than the requests

(***************************************************************************)
(* Program constants                                                       *)
(***************************************************************************)
SESSION_TIMEOUT == 2
HistoryWindow == 7

WS == " "
EmptyText == << >>
None == "None"

(***************************************************************************)
(* Text helpers: str.lower, str.lstrip, str.strip, str.split, `in`         *)
(***************************************************************************)
Lower(t) ==
    CASE t = "MEDICAMENT" -> "medicament"
      [] t = "Nutritionniste" -> "nutritionniste"
      [] t = "Voir" -> "voir"
      [] t = "Pose" -> "pose"
      [] OTHER -> t

LowerText(s) == [i \in 1..Len(s) |-> Lower(s[i])]

RECURSIVE lstrip(_)
lstrip(s) == IF s # << >> /\ Head(s) = WS THEN lstrip(Tail(s)) ELSE s

RECURSIVE rstrip(_)
rstrip(s) ==
    IF s # << >> /\ s[Len(s)] = WS THEN rstrip(SubSeq(s, 1, Len(s) - 1)) ELSE s

strip(s) == rstrip(lstrip(s))

\* str.split(): the maximal runs of non-whitespace tokens
RECURSIVE split(_)
split(s) ==
    LET t == lstrip(s)
        n == IF \E i \in 1..Len(t) : t[i] = WS
             THEN (CHOOSE i \in 1..Len(t) : t[i] = WS /\ \A j \in 1..(i - 1) : t[j] # WS) - 1
             ELSE Len(t)
    IN  IF t = << >> THEN << >>
        ELSE <<SubSeq(t, 1, n)>> \o split(SubSeq(t, n + 1, Len(t)))

\* sub in s  (contiguous occurrence)
Contains(s, sub) ==
    \E i \in 0..(Len(s) - Len(sub)) : SubSeq(s, i + 1, i + Len(sub)) = sub

RECURSIVE JoinWords(_)
JoinWords(ws) ==
    IF Len(ws) = 0 THEN << >>
    ELSE IF Len(ws) = 1 THEN <<ws[1]>>
    ELSE <<ws[1], WS>> \o JoinWords(Tail(ws))

\* number of characters of a token
TokenLen(t) ==
    CASE t \in {WS, "a", "?"} -> 1
      [] t \in {"hi", "un", "de", "la", "le"} -> 2
      [] t \in {"mon", "une", "des", "see"} -> 3
      [] t \in {"menu", "drug", "pose", "Pose", "voir", "Voir", "help", "aide", "pour"} -> 4
      [] t \in {"merci", "salut", "hello"} -> 5
      [] t \in {"enfant", "fibres"} -> 6
      [] t \in {"urgence", "diabete", "grammes", "bonjour"} -> 7
      [] t \in {"insuline", "question"} -> 8
      [] t \in {"bienfaits"} -> 9
      [] t \in {"medicament", "MEDICAMENT", "supplement"} -> 10
      [] OTHER -> 5

RECURSIVE TextLen(_)
TextLen(s) == IF s = << >> THEN 0 ELSE TokenLen(Head(s)) + TextLen(Tail(s))

(***************************************************************************)
(* State                                                                   *)
(***************************************************************************)
VARIABLES
    refusal_patterns_file,   \* knowledge-bases/common/refusal_patterns.json
    refusal_responses_file,  \* knowledge-bases/common/refusal_responses.json
    g_question,              \* risk gate called on its own: the question,
    g_language,              \*   the language,
    g_result,                \*   and what refusal_engine returned
    conversation_sessions,   \* session id -> session object (or NoObj)
    heap,                    \* session objects (the dicts of the store)
    now,                     \* datetime.now(), in hours
    req,                     \* per /query request: locals of query_agent,
                             \*   generate and ask_question_stream
    events,                  \* per request: the SSE events emitted so far
    calls,                   \* per request: external collaborators called
    question_log,            \* question_log.json
    question_log_lock,       \* threading.Lock of api/logging.py: its holder
    log_calls,               \* per call of a log function: position and locals
    aux,                     \* per request: history variables of the claims
    last_op,                 \* the read-only endpoint call just answered, if any
    sweep                    \* clean_old_sessions run step by step: its locals

vars == <<refusal_patterns_file, refusal_responses_file, g_question, g_language,
          g_result, conversation_sessions, heap, now, req, events, calls,
          question_log, question_log_lock, log_calls, aux, last_op, sweep>>

(***************************************************************************)
(* Risk gate: refusal_engine.py                                            *)
(***************************************************************************)
Languages == {"fr", "en", "es"}

\* The pattern table: language -> ordered (category, patterns) pairs, as
\* json.load returns it.  A pattern is a word searched in the text.
PatternsData ==
    [fr |-> << [category |-> "medication", pats |-> <<"medicament", "insuline">>],
               [category |-> "minor", pats |-> <<"enfant">>],
               [category |-> "possible_emergency", pats |-> <<"urgence">>],
               [category |-> "clinical_condition", pats |-> <<"diabete">>],
               [category |-> "meal_plan", pats |-> <<"menu">>],
               [category |-> "personalized_request", pats |-> <<"mon">>],
               [category |-> "supplement", pats |-> <<"supplement">>],
               [category |-> "numeric_targets", pats |-> <<"grammes">>] >>,
     en |-> << [category |-> "medication", pats |-> <<"drug", "insuline">>],
               [category |-> "minor", pats |-> <<"enfant">>],
               [category |-> "possible_emergency", pats |-> <<"urgence">>],
               [category |-> "clinical_condition", pats |-> <<"diabete">>],
               [category |-> "meal_plan", pats |-> <<"menu">>],
               [category |-> "personalized_request", pats |-> <<"mon">>],
               [category |-> "supplement", pats |-> <<"supplement">>],
               [category |-> "numeric_targets", pats |-> <<"grammes">>] >>]

\* The response table: language -> response type -> canned text.
ResponsesData ==
    [fr |-> [medication_refusal |-> <<"refus", WS, "medicament">>,
             minor_refusal |-> <<"refus", WS, "mineur">>,
             emergency_refusal |-> <<"appelez", WS, "le", WS, "911">>,
             general_refusal |-> <<"consultez", WS, "un", WS, "professionnel">>],
     en |-> [medication_refusal |-> <<"medication", WS, "refusal">>,
             emergency_refusal |-> <<"call", WS, "911">>,
             general_refusal |-> <<"consult", WS, "a", WS, "professional">>]]

NoFile == [exists |-> FALSE, data |-> << >>]
File(d) == [exists |-> TRUE, data |-> d]

\* dict.get(key, default)
DictGet(d, key, default) == IF key \in DOMAIN d THEN d[key] ELSE default

\* get_patterns_for_language; defined when the file loads
get_patterns_for_language(language) ==
    LET all_patterns == refusal_patterns_file.data
    IN  DictGet(all_patterns, language, DictGet(all_patterns, "fr", << >>))

\* a get_refusal_response that ignores the response type
get_refusal_response_general(response_type, language) ==
    LET responses == refusal_responses_file.data
        lang_responses == DictGet(responses, language, DictGet(responses, "fr", << >>))
    IN  DictGet(lang_responses, "general_refusal", EmptyText)

\* get_refusal_response; defined when the file loads
get_refusal_response(response_type, language) ==
    LET responses == refusal_responses_file.data
        lang_responses == DictGet(responses, language, DictGet(responses, "fr", << >>))
    IN  DictGet(lang_responses, response_type,
                DictGet(lang_responses, "general_refusal", EmptyText))

\* re.search(pat, text, flags=re.IGNORECASE) for a one-word pattern
re_search(pat, text) == \E i \in 1..Len(text) : Lower(text[i]) = Lower(pat)

\* a _match_patterns without re.IGNORECASE
_match_patterns_case(text, patterns) ==
    SelectSeq(patterns, LAMBDA pat : \E i \in 1..Len(text) : text[i] = pat)

_match_patterns(text, patterns) == SelectSeq(patterns, LAMBDA pat : re_search(pat, text))

\* the dict `matched` of refusal_engine: ordered (category, hits) pairs
MatchedOf(combined, patterns) ==
    LET all == [i \in 1..Len(patterns) |->
                   [category |-> patterns[i].category,
                    hits |-> _match_patterns(combined, patterns[i].pats)]]
    IN  SelectSeq(all, LAMBDA m : m.hits # << >>)

InMatched(matched, category) == \E i \in 1..Len(matched) : matched[i].category = category

\* matched.get(category, [])
MatchedGet(matched, category) ==
    IF InMatched(matched, category)
    THEN matched[CHOOSE i \in 1..Len(matched) : matched[i].category = category].hits
    ELSE << >>

MatchedKeys(matched) == [i \in 1..Len(matched) |-> matched[i].category]

RefusalResult(decision, reasons, matched_patterns, response, matched) ==
    [raised |-> FALSE, decision |-> decision, reasons |-> reasons,
     matched_patterns |-> matched_patterns, response |-> response,
     matched_categories |-> MatchedKeys(matched)]

\* refusal_engine raised (a table could not be loaded)
Raised ==
    [raised |-> TRUE, decision |-> "none", reasons |-> << >>,
     matched_patterns |-> << >>, response |-> << >>, matched_categories |-> << >>]

\* A REFUSE result; its response needs the response table
Refuse(reason, matched_patterns, response_type, language, matched) ==
    IF ~refusal_responses_file.exists THEN Raised
    ELSE RefusalResult("refuse", <<reason>>, matched_patterns,
                       <<get_refusal_response(response_type, language)>>, matched)

\* Optional[str] is a sequence of at most one text: None is << >>
refusal_engine(question, language) ==
    IF ~refusal_patterns_file.exists THEN Raised
    ELSE
    LET combined == strip(question)
        matched == MatchedOf(combined, get_patterns_for_language(language))
    IN  IF InMatched(matched, "medication")
        THEN Refuse("Medication / clinical compatibility question",
                    MatchedGet(matched, "medication"), "medication_refusal",
                    language, matched)
        ELSE IF InMatched(matched, "minor")
                /\ (InMatched(matched, "personalized_request")
                    \/ InMatched(matched, "meal_plan"))
        THEN Refuse("Minor + weight/plan/personalized request",
                    MatchedGet(matched, "minor")
                      \o MatchedGet(matched, "personalized_request")
                      \o MatchedGet(matched, "meal_plan"),
                    "minor_refusal", language, matched)
        ELSE IF InMatched(matched, "possible_emergency")
        THEN Refuse("Possible emergency / urgent situation",
                    MatchedGet(matched, "possible_emergency"), "emergency_refusal",
                    language, matched)
        ELSE IF InMatched(matched, "clinical_condition")
        THEN Refuse("Clinical condition mentioned",
                    MatchedGet(matched, "clinical_condition"), "general_refusal",
                    language, matched)
        ELSE IF InMatched(matched, "meal_plan")
        THEN Refuse("Meal plan request",
                    MatchedGet(matched, "meal_plan"), "general_refusal",
                    language, matched)
        ELSE IF InMatched(matched, "personalized_request")
        THEN Refuse("Personalized recommendation request",
                    MatchedGet(matched, "personalized_request"), "general_refusal",
                    language, matched)
        ELSE IF InMatched(matched, "supplement")
        THEN RefusalResult("allow_with_constraints",
                           <<"Supplement mentioned (allow general info only)">>,
                           MatchedGet(matched, "supplement"), << >>, matched)
        ELSE IF InMatched(matched, "numeric_targets")
        THEN RefusalResult("allow_with_constraints",
                           <<"Numeric targets mentioned (avoid numbers in reply)">>,
                           MatchedGet(matched, "numeric_targets"), << >>, matched)
        ELSE RefusalResult("allow", << >>, << >>, << >>, matched)

\* the text validate_user_query prepares for a constrained answer
SystemSuffix == <<"ADDITIONAL", WS, "CONSTRAINTS:">>

\* validate_user_query's local system_suffix
system_suffix(decision) ==
    IF decision = "allow_with_constraints" THEN SystemSuffix ELSE EmptyText

\* validate_user_query: the dict it returns ("answer" only on refuse); the
\* local system_suffix is not among its keys
validate_user_query(question, language) ==
    LET risk == refusal_engine(question, language)
    IN  [raised |-> risk.raised, decision |-> risk.decision,
         reasons |-> risk.reasons,
         answer |-> IF risk.decision = "refuse" THEN risk.response ELSE << >>,
         audit |-> risk]

(***************************************************************************)
(* Post-response classifier: api/logging.py                                *)
(***************************************************************************)
french_patterns ==
    << JoinWords(<<"consulter", "un", "professionnel">>),
       JoinWords(<<"consulte", "un", "professionnel">>),
       JoinWords(<<"consultez", "un", "professionnel">>),
       JoinWords(<<"consulter", "votre", "medecin">>),
       JoinWords(<<"consultez", "votre", "medecin">>),
       JoinWords(<<"parler", "a", "un", "medecin">>),
       JoinWords(<<"parlez", "a", "un", "medecin">>),
       JoinWords(<<"voir", "un", "medecin">>),
       JoinWords(<<"voyez", "un", "medecin">>),
       JoinWords(<<"demander", "conseil", "a", "un", "professionnel">>),
       JoinWords(<<"demandez", "conseil", "a", "un", "professionnel">>),
       JoinWords(<<"avis", "medical">>),
       JoinWords(<<"consultation", "medicale">>),
       JoinWords(<<"professionnel", "de", "sante">>),
       JoinWords(<<"professionnel", "de", "la", "sante">>),
       <<"nutritionniste">>,
       <<"dieteticien">> >>

english_patterns ==
    << JoinWords(<<"consult", "a", "professional">>),
       JoinWords(<<"consult", "your", "doctor">>),
       JoinWords(<<"see", "a", "doctor">>),
       JoinWords(<<"talk", "to", "a", "doctor">>),
       JoinWords(<<"speak", "to", "a", "doctor">>),
       JoinWords(<<"seek", "medical", "advice">>),
       JoinWords(<<"medical", "consultation">>),
       JoinWords(<<"health", "professional">>),
       JoinWords(<<"healthcare", "professional">>),
       <<"nutritionist">>,
       <<"dietitian">> >>

contains_medical_disclaimer(response_text) ==
    IF response_text = EmptyText THEN FALSE
    ELSE LET response_lower == LowerText(response_text)
             all_patterns == french_patterns \o english_patterns
         IN  \E i \in 1..Len(all_patterns) : Contains(response_lower, all_patterns[i])

(***************************************************************************)
(* Reference extraction: core/query_chromadb.py                            *)
(***************************************************************************)
Digits == {"12345", "67890", "111"}

generic_phrases ==
    << JoinWords(<<"pose", "une", "question">>), JoinWords(<<"aide", "moi">>),
       <<"bonjour">>, <<"salut">>, <<"merci">>, <<"hello">>, <<"hi">>, <<"help">>,
       JoinWords(<<"ask", "a", "question">>), JoinWords(<<"ask", "question">>) >>

\* a filter that looks at the length only
is_substantial_question_length(question) ==
    ~(question = EmptyText \/ TextLen(strip(question)) < 10)

is_substantial_question(question) ==
    IF question = EmptyText \/ TextLen(strip(question)) < 10 THEN FALSE
    ELSE LET words == SelectSeq(split(question), LAMBDA w : TextLen(w) >= 3)
             question_lower == strip(LowerText(question))
         IN  IF Len(words) < 3 THEN FALSE
             ELSE ~\E i \in 1..Len(generic_phrases) :
                      \/ question_lower = generic_phrases[i]
                      \/ question_lower = generic_phrases[i] \o <<"?">>

\* re.findall(r'PMID:\s*\d+', text): the matched strings, left to right
RECURSIVE extract_pmids_from_text(_)
extract_pmids_from_text(text) ==
    IF text = << >> THEN << >>
    ELSE IF Head(text) # "PMID:" THEN extract_pmids_from_text(Tail(text))
    ELSE LET rest == Tail(text)
             k == Len(rest) - Len(lstrip(rest))
         IN  IF k < Len(rest) /\ rest[k + 1] \in Digits
             THEN <<SubSeq(text, 1, k + 2)>>
                    \o extract_pmids_from_text(SubSeq(text, k + 3, Len(text)))
             ELSE extract_pmids_from_text(rest)

Range(f) == {f[x] : x \in DOMAIN f}

\* the lists a Python list(set) can be: the set's elements in any order
ListsOf(S) ==
    {l \in [1..Cardinality(S) -> S] : \A i, j \in 1..Cardinality(S) : i # j => l[i] # l[j]}

\* str.split(','): the pieces between the commas, left to right
RECURSIVE split_comma(_)
split_comma(text) ==
    IF \A i \in 1..Len(text) : text[i] # ","
    THEN <<text>>
    ELSE LET k == CHOOSE i \in 1..Len(text) :
                      text[i] = "," /\ \A j \in 1..(i - 1) : text[j] # ","
         IN  <<SubSeq(text, 1, k - 1)>> \o split_comma(SubSeq(text, k + 1, Len(text)))

\* annotated identifiers handed over as they are written in the annotation
MetaLinks_bare(metadatas) ==
    UNION {{strip(link) :
               link \in {l \in Range(split_comma(metadatas[i].links)) : strip(l) # << >>}} :
           i \in {i \in 1..Len(metadatas) : metadatas[i].links # EmptyText}}

\* Priority 1 of get_links_from_contexts: the 'links' field of the metadata
MetaLinks(metadatas) ==
    UNION {{<<"PMID:", WS>> \o strip(link) :
               link \in {l \in Range(split_comma(metadatas[i].links)) : strip(l) # << >>}} :
           i \in {i \in 1..Len(metadatas) : metadatas[i].links # EmptyText}}

TextLinks(docs) == UNION {Range(extract_pmids_from_text(docs[i])) : i \in 1..Len(docs)}

\* Priority 3: chunk 0 of each source document; `chunk0` is what col.get
\* returns (no document when the lookup fails)
Chunk0Links(metadatas, chunk0) ==
    LET sources == {metadatas[i].source : i \in 1..Len(metadatas)} \ {None}
    IN  UNION {Range(extract_pmids_from_text(chunk0[src])) : src \in sources \cap DOMAIN chunk0}

\* whether get_links_from_contexts goes as far as col.get for chunk 0
fetches_chunk0(contexts, metadatas) ==
    /\ MetaLinks(metadatas) = {} /\ TextLinks(contexts) = {}
    /\ metadatas # << >>
    /\ {metadatas[i].source : i \in 1..Len(metadatas)} \ {None} # {}

\* what a call of get_links_from_contexts does: its scans, and the fetch
extractor_calls(contexts, metadatas) ==
    {"extractor"} \cup (IF fetches_chunk0(contexts, metadatas) THEN {"chunk0"} ELSE {})

\* an extractor that adds the identifiers of the text to the annotated ones
get_links_from_contexts_merged(contexts, metadatas, chunk0) ==
    IF MetaLinks(metadatas) \cup TextLinks(contexts) # {}
    THEN MetaLinks(metadatas) \cup TextLinks(contexts)
    ELSE IF metadatas # << >> THEN Chunk0Links(metadatas, chunk0)
    ELSE {}

\* the set `links` of get_links_from_contexts
get_links_from_contexts(contexts, metadatas, chunk0) ==
    IF MetaLinks(metadatas) # {} THEN MetaLinks(metadatas)
    ELSE IF TextLinks(contexts) # {} THEN TextLinks(contexts)
    ELSE IF metadatas # << >> THEN Chunk0Links(metadatas, chunk0)
    ELSE {}

\* What the index holds, as col.query returns it for a question
Meta(links, source) == [links |-> links, source |-> source]

ResAnnotated ==
    [documents |-> << <<"fibres", WS, "PMID:", WS, "111">> >>,
     metadatas |-> << Meta(<<"12345", ",", "67890">>, "docA") >>,
     chunk0 |-> [docA |-> <<"PMID:", "111">>]]

\* two passages annotated, with an identifier in common
ResAnnotatedTwo ==
    [documents |-> << <<"fibres", WS, "PMID:", WS, "111">>, <<"fruits">>, <<"legumes">> >>,
     metadatas |-> << Meta(<<"67890", ",", WS, "12345", ",">>, "docA"),
                      Meta(EmptyText, "docB"), Meta(<<"67890">>, None) >>,
     chunk0 |-> [docA |-> <<"PMID:", "111">>, docB |-> <<"PMID:", WS, "111">>]]

ResPlain ==
    [documents |-> << <<"fibres">> >>,
     metadatas |-> << Meta(EmptyText, "docB") >>,
     chunk0 |-> [docB |-> <<"intro">>]]

ResInText ==
    [documents |-> << <<"fibres", WS, "PMID:", "111">>, <<"PMID:", WS, "111">> >>,
     metadatas |-> << Meta(EmptyText, "docA"), Meta(EmptyText, None) >>,
     chunk0 |-> [docA |-> <<"PMID:", WS, "12345">>]]

ResChunk0 ==
    [documents |-> << <<"fibres">> >>,
     metadatas |-> << Meta(EmptyText, "docA") >>,
     chunk0 |-> [docA |-> <<"PMID:", WS, "12345">>]]

ResEmpty == [documents |-> << >>, metadatas |-> << >>, chunk0 |-> << >>]

(***************************************************************************)
(* Session store: api/sessions.py                                          *)
(***************************************************************************)
Reqs == 1..NReq
NoObj == 0                     \* no session object
NoId == -1                     \* Python None, as a session or question id
ClientSessionId == NReq + 1    \* a session id made up by a client
SessionIds == 1..(NReq + 1)
OldObj == NReq + 1             \* the object of a session older than every request
Objs == 1..(NReq + 1)

\* str(uuid.uuid4()): the token generated in request r
uuid4(r) == r

NewSession(t) ==
    [messages |-> << >>, created_at |-> t, last_activity |-> t,
     links |-> << >>, refusals |-> {}]

\* a sweep that also takes the sessions idle for exactly the time-to-live
expired_sessions_inclusive(store, hp, t) ==
    {sid \in SessionIds :
        store[sid] # NoObj /\ t - hp[store[sid]].last_activity >= SESSION_TIMEOUT}

\* session ids clean_old_sessions deletes
expired_sessions(store, hp, t) ==
    {sid \in SessionIds :
        store[sid] # NoObj /\ t - hp[store[sid]].last_activity > SESSION_TIMEOUT}

clean_old_sessions(store, hp, t) ==
    [sid \in SessionIds |->
        IF sid \in expired_sessions(store, hp, t) THEN NoObj ELSE store[sid]]

\* get_or_create_session, called in request r: the store, the heap, the id
\* and the session object it returns
get_or_create_session(sid_in, r) ==
    LET session_id == IF sid_in = NoId THEN uuid4(r) ELSE sid_in
        swept == clean_old_sessions(conversation_sessions, heap, now)
        create == swept[session_id] = NoObj
        obj == IF create THEN r ELSE swept[session_id]
        session == IF create THEN NewSession(now) ELSE heap[obj]
    IN  [store |-> [swept EXCEPT ![session_id] = obj],
         heap |-> [heap EXCEPT ![obj] = [session EXCEPT !.last_activity = now]],
         session_id |-> session_id,
         session |-> obj]

\* a reset that empties the store
reset_session_store_all(session_id) ==
    IF session_id # NoId /\ conversation_sessions[session_id] # NoObj
    THEN [sid \in SessionIds |-> NoObj]
    ELSE conversation_sessions

reset_session_store(session_id) ==
    IF session_id # NoId /\ conversation_sessions[session_id] # NoObj
    THEN [conversation_sessions EXCEPT ![session_id] = NoObj]
    ELSE conversation_sessions

\* the ids in the store
StoreKeys(store) == {sid \in SessionIds : store[sid] # NoObj}

\* clean_old_sessions between two calls
IdleSweep ==
    [pc |-> "idle", r |-> 0, sid_in |-> NoId, t |-> 0, used |-> 0, todo |-> {},
     expired_sessions |-> {}, error |-> "none"]

get_session_info(session_id) ==
    IF conversation_sessions[session_id] # NoObj
    THEN LET session == heap[conversation_sessions[session_id]]
         IN  [exists |-> TRUE, message_count |-> Len(session.messages),
              created_at |-> session.created_at,
              last_activity |-> session.last_activity]
    ELSE [exists |-> FALSE, message_count |-> 0, created_at |-> 0, last_activity |-> 0]

(***************************************************************************)
(* Query orchestrator: api/routes/query.py and ask_question_stream         *)
(***************************************************************************)
REFUSAL_MARKER == <<"__REFUSAL__">>

ErrNoCollection == <<"Error: ChromaDB collection is not available.">>
ErrNoDocuments == <<"No relevant information found.">>
ErrNoTemplate == <<"Error: Unable to load prompt template.">>
ErrSupplier == <<"Error: Model supplier not supported.">>
ErrProcessing == <<"Error processing your question">>

\* a message of the history; `turn` is the request that appended it
Message(role, content, r) == [role |-> role, content |-> content, turn |-> r]

Event(type, sid, qid, chunk, links) ==
    [type |-> type, session_id |-> sid, question_id |-> qid,
     chunk |-> chunk, links |-> links]

IdleReq ==
    [pc |-> "idle", question |-> EmptyText, language |-> "fr",
     session_id |-> NoId, session |-> NoObj, history_text |-> EmptyText,
     decision |-> "none", is_refusal |-> FALSE, assistant_response |-> EmptyText,
     contexts |-> << >>, metadatas |-> << >>, failure |-> "none", at_yield |-> FALSE, reply |-> << >>,
     prompt |-> EmptyText,
     supplier |-> "none", first_chunk |-> TRUE, stream |-> << >>,
     stream_raises |-> FALSE]

InFlight(r) == req[r].pc \notin {"idle", "done", "failed", "cancelled"}

\* conversation_history[-7:-1] when the history has more than one entry
recent_history(conversation_history) ==
    IF Len(conversation_history) > 1
    THEN SubSeq(conversation_history,
                IF Len(conversation_history) > HistoryWindow
                THEN Len(conversation_history) - HistoryWindow + 1 ELSE 1,
                Len(conversation_history) - 1)
    ELSE << >>

\* one line of the history block: the role's label and the content
history_line(msg) ==
    <<IF msg.role = "user" THEN "Utilisateur" ELSE "Assistant", ":", WS>>
        \o msg.content \o <<"\n">>

RECURSIVE history_lines(_)
history_lines(msgs) ==
    IF msgs = << >> THEN EmptyText
    ELSE history_line(Head(msgs)) \o history_lines(Tail(msgs))

\* a history block of every entry before the last one
history_text_whole(conversation_history) ==
    IF Len(conversation_history) > 1
    THEN <<"HISTORIQUE DE LA CONVERSATION:", "\n">>
            \o history_lines(SubSeq(conversation_history, 1, Len(conversation_history) - 1))
    ELSE EmptyText

\* history_text of ask_question_stream
history_text(conversation_history) ==
    IF Len(conversation_history) > 1
    THEN <<"HISTORIQUE DE LA CONVERSATION:", "\n">>
            \o history_lines(recent_history(conversation_history))
    ELSE EmptyText

\* a loop body that puts each content event in front of the earlier ones
GenerateChunk_prepend(st, chunk) ==
    IF chunk = REFUSAL_MARKER
    THEN [st EXCEPT !.is_refusal = TRUE]
    ELSE [st EXCEPT !.assistant_response = @ \o chunk,
                    !.events = <<Event("chunk", NoId, NoId, chunk, << >>)>> \o @]

\* The body of generate's loop for one chunk yielded by ask_question_stream:
\* the marker sets is_refusal, anything else is accumulated and emitted
GenerateChunk(st, chunk) ==
    IF chunk = REFUSAL_MARKER
    THEN [st EXCEPT !.is_refusal = TRUE]
    ELSE [st EXCEPT !.assistant_response = @ \o chunk,
                    !.events = Append(@, Event("chunk", NoId, NoId, chunk, << >>))]

RECURSIVE GenerateChunks(_, _)
GenerateChunks(st, chunks) ==
    IF chunks = << >> THEN st
    ELSE GenerateChunks(GenerateChunk(st, Head(chunks)), Tail(chunks))

\* the request's locals and events after ask_question_stream yielded `chunks`
Yielded(r, rq, chunks) ==
    LET st == GenerateChunks([is_refusal |-> rq.is_refusal,
                              assistant_response |-> rq.assistant_response,
                              events |-> events[r]], chunks)
    IN  [req |-> [rq EXCEPT !.is_refusal = st.is_refusal,
                            !.assistant_response = st.assistant_response,
                            !.at_yield = Len(st.events) > Len(events[r])],
         events |-> st.events]

Op(op, sid, qid, question, result) ==
    [op |-> op, session_id |-> sid, question_id |-> qid, question |-> question,
     result |-> result]

NoResult == [status |-> "none", pmids |-> << >>, retrieved |-> FALSE, info |-> << >>]

NoOp == Op("none", NoId, NoId, EmptyText, NoResult)

\* what a client may send as session id: nothing, an id of its own, or an id
\* an earlier request was given
GivenSessionIds ==
    {NoId} \cup {req[q].session_id : q \in {q \in Reqs : req[q].pc # "idle"}}

KnownSessionIds == GivenSessionIds \cup {ClientSessionId}

\* query_agent: the handler's body up to the StreamingResponse
query_agent(r, question, language, sid_in) ==
    /\ req[r].pc = "idle"
    /\ \A q \in Reqs : q < r => req[q].pc # "idle"
    /\ LET got == get_or_create_session(sid_in, r)
           user_message == Message("user", question, r)
       IN  /\ conversation_sessions' = got.store
           /\ heap' = [got.heap EXCEPT ![got.session].messages = Append(@, user_message)]
           /\ req' = [req EXCEPT ![r] =
                        [IdleReq EXCEPT !.pc = "boot", !.question = question,
                                        !.language = language,
                                        !.session_id = got.session_id,
                                        !.session = got.session]]
           /\ aux' = [q \in Reqs |->
                        IF q = r
                        THEN [alone |-> ~\E o \in Reqs \ {r} :
                                           InFlight(o) /\ req[o].session = got.session,
                              before |-> got.heap[got.session].messages,
                              after |-> << >>]
                        ELSE IF InFlight(q) /\ req[q].session = got.session
                        THEN [aux[q] EXCEPT !.alone = FALSE]
                        ELSE aux[q]]
    /\ last_op' = NoOp
    /\ UNCHANGED <<sweep, question_log_lock, log_calls, refusal_patterns_file, refusal_responses_file, g_question,
                   g_language, g_result, now, events, calls, question_log>>

\* generate's first step: the bootstrap event
Bootstrap(r) ==
    /\ req[r].pc = "boot"
    /\ events' = [events EXCEPT ![r] =
                    Append(@, Event("bootstrap", req[r].session_id, uuid4(r),
                                    EmptyText, << >>))]
    /\ req' = [req EXCEPT ![r].pc = "ask", ![r].at_yield = TRUE]
    /\ last_op' = NoOp
    /\ UNCHANGED <<sweep, question_log_lock, log_calls, refusal_patterns_file, refusal_responses_file, g_question,
                   g_language, g_result, conversation_sessions, heap, now, calls,
                   question_log, aux>>

\* What the collaborators answer to one request
Env(collection, embedding_ok, query_ok, result, template, supplier, create_ok, reply, reply_raises) ==
    [collection |-> collection, embedding_ok |-> embedding_ok, query_ok |-> query_ok,
     result |-> result, template |-> template, supplier |-> supplier,
     create_ok |-> create_ok, reply |-> reply, reply_raises |-> reply_raises]

\* one request ends early with the chunk `msg`
EndWith(r, rq, msg) ==
    LET y == Yielded(r, rq, <<msg>>)
    IN  /\ req' = [req EXCEPT ![r] = [y.req EXCEPT !.pc = "final"]]
        /\ events' = [events EXCEPT ![r] = y.events]

\* an early end that reports every failure as an exception
Fail_generic(r, rq, kind, msg) == EndWith(r, [rq EXCEPT !.failure = kind], ErrProcessing)

\* one request ends early on the failure `kind`, with the chunk `msg`
Fail(r, rq, kind, msg) == EndWith(r, [rq EXCEPT !.failure = kind], msg)

\* where generate stands once the backend's stream holds `stream`: a stream
\* that has ended without an exception leads straight to generate's last lines
AfterStream(stream, stream_raises) ==
    IF stream = << >> /\ ~stream_raises THEN "final" ELSE "stream"

\* "\n\n".join(contexts)
RECURSIVE JoinContexts(_)
JoinContexts(contexts) ==
    IF contexts = << >> THEN EmptyText
    ELSE IF Len(contexts) = 1 THEN contexts[1]
    ELSE contexts[1] \o <<"\n\n">> \o JoinContexts(Tail(contexts))

\* build_prompt_from_template: the language's template filled with the
\* context, the history block and the question
build_prompt_from_template(language, context, question, history) ==
    <<"template", "\n">> \o context \o <<"\n">> \o history \o <<"\n">> \o question

\* ask_question_stream from get_collection to the opening of the stream
Retrieve(r, rq, env) ==
    LET called(S) == calls' = [calls EXCEPT ![r] = @ \cup S]
        extracting == IF is_substantial_question(rq.question)
                      THEN extractor_calls(env.result.documents, env.result.metadatas)
                      ELSE {}
    IN  IF ~env.collection
        THEN Fail(r, rq, "index unavailable", ErrNoCollection) /\ UNCHANGED <<heap, calls>>
        ELSE IF ~env.embedding_ok
        THEN Fail(r, rq, "exception", ErrProcessing) /\ called({"embedding"}) /\ UNCHANGED heap
        ELSE IF ~env.query_ok
        THEN Fail(r, rq, "exception", ErrProcessing) /\ called({"embedding", "index"})
             /\ UNCHANGED heap
        ELSE IF env.result.documents = << >>
        THEN Fail(r, rq, "no passages", ErrNoDocuments) /\ called({"embedding", "index"})
             /\ UNCHANGED heap
        ELSE
        \E links \in (IF is_substantial_question(rq.question)
                      THEN ListsOf(get_links_from_contexts(env.result.documents,
                                       env.result.metadatas, env.result.chunk0))
                      ELSE {<< >>}) :
        LET rq1 == [rq EXCEPT !.contexts = env.result.documents,
                              !.metadatas = env.result.metadatas]
            rq2 == IF env.template
                   THEN [rq1 EXCEPT !.prompt =
                            build_prompt_from_template(rq.language,
                                JoinContexts(env.result.documents), rq.question,
                                rq.history_text)]
                   ELSE rq1
        IN
        /\ heap' = [heap EXCEPT ![rq.session].links = (uuid4(r) :> links) @@ @]
        /\ IF ~env.template
           THEN Fail(r, rq2, "missing template", ErrNoTemplate) /\ called({"embedding", "index"} \cup extracting)
           ELSE IF env.supplier \notin {"openai", "gemini"}
           THEN Fail(r, rq2, "unsupported provider", ErrSupplier) /\ called({"embedding", "index"} \cup extracting)
           ELSE IF ~env.create_ok
           THEN Fail(r, rq2, "exception", ErrProcessing)
                /\ called({"embedding", "index", "generation"} \cup extracting)
           ELSE /\ req' = [req EXCEPT ![r] =
                             [rq2 EXCEPT !.pc = AfterStream(env.reply, env.reply_raises),
                                         !.at_yield = FALSE,
                                         !.reply = env.reply,
                                        !.supplier = env.supplier,
                                        !.stream = env.reply,
                                        !.stream_raises = env.reply_raises]]
                /\ called({"embedding", "index", "generation"} \cup extracting)
                /\ UNCHANGED events

\* a refusal branch that asks the generation backend for the answer
RefuseTurn_generates(r, rq, answer) ==
    LET y == Yielded(r, rq, <<REFUSAL_MARKER, answer>>)
    IN  /\ heap' = [heap EXCEPT ![rq.session].links = (uuid4(r) :> << >>) @@ @]
        /\ req' = [req EXCEPT ![r] = [y.req EXCEPT !.pc = "final"]]
        /\ events' = [events EXCEPT ![r] = y.events]
        /\ calls' = [calls EXCEPT ![r] = @ \cup {"generation"}]

\* the refusal branch of ask_question_stream: an empty reference list for
\* the turn, the marker, the canned answer, and return
RefuseTurn(r, rq, answer) ==
    LET y == Yielded(r, rq, <<REFUSAL_MARKER, answer>>)
    IN  /\ heap' = [heap EXCEPT ![rq.session].links = (uuid4(r) :> << >>) @@ @]
        /\ req' = [req EXCEPT ![r] = [y.req EXCEPT !.pc = "final"]]
        /\ events' = [events EXCEPT ![r] = y.events]
        /\ UNCHANGED calls

\* ask_question_stream from its call to its first yield or to the opening of
\* the backend's stream: history block, risk gate, retrieval, prompt
Ask(r, env) ==
    /\ req[r].pc = "ask"
    /\ LET rq == req[r]
           conversation_history == heap[rq.session].messages
           refusal_result == validate_user_query(rq.question, rq.language)
           rq1 == [rq EXCEPT !.history_text = history_text(conversation_history),
                             !.decision = refusal_result.decision]
       IN  IF refusal_result.raised
           THEN /\ req' = [req EXCEPT ![r] = [rq1 EXCEPT !.pc = "failed"]]
                /\ UNCHANGED <<heap, events, calls>>
           ELSE IF refusal_result.decision = "refuse"
           THEN RefuseTurn(r, rq1, refusal_result.answer[1])
           ELSE Retrieve(r, rq1, env)
    /\ last_op' = NoOp
    /\ UNCHANGED <<sweep, question_log_lock, log_calls, refusal_patterns_file, refusal_responses_file, g_question,
                   g_language, g_result, conversation_sessions, now,
                   question_log, aux>>

\* the chunks ask_question_stream yields for one fragment of the backend;
\* a fragment is << >> (no content) or <<text>>
StreamYield(supplier, first_chunk, frag) ==
    IF frag = << >> THEN << >>
    ELSE IF supplier = "openai"
    THEN LET content == IF first_chunk THEN lstrip(frag[1]) ELSE frag[1]
         IN  IF content # EmptyText THEN <<content>> ELSE << >>
    ELSE IF frag[1] = EmptyText THEN << >>
    ELSE LET text == IF first_chunk THEN lstrip(frag[1]) ELSE frag[1]
         IN  IF text # EmptyText THEN <<text>> ELSE << >>

\* first_chunk after the fragment
StreamFirst(supplier, first_chunk, frag) ==
    IF frag = << >> THEN first_chunk
    ELSE IF supplier = "openai" THEN FALSE
    ELSE IF frag[1] = EmptyText THEN first_chunk
    ELSE FALSE

\* one fragment of the backend's stream, or the exception that ends it
StreamStep(r) ==
    /\ req[r].pc = "stream"
    /\ LET rq == req[r]
       IN  IF rq.stream = << >>
           THEN Fail(r, [rq EXCEPT !.stream_raises = FALSE], "exception", ErrProcessing)
           ELSE LET frag == Head(rq.stream)
                    y == Yielded(r, rq, StreamYield(rq.supplier, rq.first_chunk, frag))
                IN  /\ req' = [req EXCEPT ![r] =
                                 [y.req EXCEPT !.stream = Tail(rq.stream),
                                               !.first_chunk =
                                                   StreamFirst(rq.supplier, rq.first_chunk, frag),
                                               !.pc = AfterStream(Tail(rq.stream),
                                                                  rq.stream_raises)]]
                    /\ events' = [events EXCEPT ![r] = y.events]
    /\ last_op' = NoOp
    /\ UNCHANGED <<sweep, question_log_lock, log_calls, refusal_patterns_file, refusal_responses_file, g_question,
                   g_language, g_result, conversation_sessions, heap, now, calls,
                   question_log, aux>>

QLogged == <<"question">>    \* the question of a call of save_question_response

\* the entry save_question_response builds; `likes` is a key the entry gets
\* with its first vote
LogEntry(question_id, question, response) ==
    [question_id |-> question_id, question |-> question, response |-> response,
     comments |-> << >>, likes |-> << >>]

\* save_question_response: the log with the entry appended
save_question_response(question_id, question, response) ==
    Append(question_log, LogEntry(question_id, question, response))

\* last lines that leave the history alone on a refusal
FinalHistory_keep(messages, is_refusal, assistant_message) ==
    IF ~is_refusal THEN Append(messages, assistant_message)
    ELSE messages

\* the history after generate's last lines (list.pop removes the last entry)
FinalHistory(messages, is_refusal, assistant_message) ==
    IF ~is_refusal THEN Append(messages, assistant_message)
    ELSE SubSeq(messages, 1, Len(messages) - 1)

\* final links that ignore the classifier
FinalLinks_unclassified(session, question_id, is_refusal, has_medical_disclaimer) ==
    IF ~is_refusal
    THEN DictGet(session.links, question_id, << >>)
    ELSE << >>

\* the links of the final event
FinalLinks(session, question_id, is_refusal, has_medical_disclaimer) ==
    IF ~(is_refusal \/ has_medical_disclaimer)
    THEN DictGet(session.links, question_id, << >>)
    ELSE << >>

\* generate after its loop: the log, classification, history, the links event
Final(r) ==
    /\ req[r].pc = "final"
    /\ LET rq == req[r]
           session == heap[rq.session]
           has_medical_disclaimer == contains_medical_disclaimer(rq.assistant_response)
           marked == IF rq.is_refusal \/ has_medical_disclaimer
                     THEN session.refusals \cup {uuid4(r)} ELSE session.refusals
           assistant_message == Message("assistant", rq.assistant_response, r)
       IN  IF rq.is_refusal /\ session.messages = << >>
           THEN /\ heap' = [heap EXCEPT ![rq.session].refusals = marked]
                /\ req' = [req EXCEPT ![r].pc = "failed"]
                /\ UNCHANGED events
           ELSE /\ heap' = [heap EXCEPT
                              ![rq.session].refusals = marked,
                              ![rq.session].messages =
                                  FinalHistory(@, rq.is_refusal, assistant_message)]
                /\ events' = [events EXCEPT ![r] =
                                Append(@, Event("links", NoId, NoId, EmptyText,
                                                FinalLinks(session, uuid4(r), rq.is_refusal,
                                                           has_medical_disclaimer)))]
                /\ req' = [req EXCEPT ![r].pc = "done"]
    /\ question_log' = save_question_response(uuid4(r), req[r].question,
                                               req[r].assistant_response)
    /\ aux' = [aux EXCEPT ![r].after = heap'[req[r].session].messages]
    /\ last_op' = NoOp
    /\ UNCHANGED <<sweep, question_log_lock, log_calls, refusal_patterns_file, refusal_responses_file, g_question,
                   g_language, g_result, conversation_sessions, now, calls>>

\* a clock that may also be set back
Tick_back ==
    /\ now' \in {now - 1, now + 1} \cap (0..MaxTime)
    /\ UNCHANGED <<sweep, question_log_lock, log_calls, refusal_patterns_file, refusal_responses_file, g_question,
                   g_language, g_result, conversation_sessions, heap, req, events,
                   calls, question_log, aux, last_op>>

\* the client drops the connection while generate is suspended at the yield
\* of a content event: the generator is not resumed
Cancel(r) ==
    /\ req[r].pc \in {"stream", "final"}
    /\ req[r].at_yield
    /\ \E i \in 1..Len(events[r]) : events[r][i].type = "chunk"
    /\ req' = [req EXCEPT ![r].pc = "cancelled"]
    /\ last_op' = NoOp
    /\ UNCHANGED <<sweep, question_log_lock, log_calls, refusal_patterns_file, refusal_responses_file, g_question,
                   g_language, g_result, conversation_sessions, heap, now, events,
                   calls, question_log, aux>>

\* time passes
Tick ==
    /\ now < MaxTime
    /\ now' = now + 1
    /\ UNCHANGED <<sweep, question_log_lock, log_calls, refusal_patterns_file, refusal_responses_file, g_question,
                   g_language, g_result, conversation_sessions, heap, req, events,
                   calls, question_log, aux, last_op>>

(***************************************************************************)
(* Reference lookup and session endpoints                                  *)
(***************************************************************************)
\* get_pmids_from_contexts of the agent deployment: the passages' text, then
\* chunk 0 of their sources
get_pmids_from_contexts(contexts, metadatas, chunk0) ==
    IF TextLinks(contexts) # {} THEN TextLinks(contexts)
    ELSE IF metadatas # << >> THEN Chunk0Links(metadatas, chunk0)
    ELSE {}

Result(status, pmids, retrieved) ==
    [status |-> status, pmids |-> pmids, retrieved |-> retrieved, info |-> << >>]

\* a lookup that reads the cache before the refusal set
get_pmids_api_cache_first(session_id, question_id, question, env, recomputed) ==
    LET has == /\ session_id # NoId
               /\ question_id # NoId
               /\ conversation_sessions[session_id] # NoObj
        session == heap[conversation_sessions[session_id]]
    IN  IF has /\ question_id \in DOMAIN session.links
        THEN Result("ok", session.links[question_id], FALSE)
        ELSE IF has /\ question_id \in session.refusals
        THEN Result("ok", << >>, FALSE)
        ELSE IF question = EmptyText THEN Result("ok", << >>, FALSE)
        ELSE IF ~is_substantial_question(question) THEN Result("ok", << >>, FALSE)
        ELSE IF ~env.collection THEN Result("error", << >>, FALSE)
        ELSE IF ~env.embedding_ok \/ ~env.query_ok THEN Result("raised", << >>, TRUE)
        ELSE Result("ok", recomputed, TRUE)

\* get_pmids_api; `recomputed` is the list the fallback computes
get_pmids_api(session_id, question_id, question, env, recomputed) ==
    LET has == /\ session_id # NoId
               /\ question_id # NoId
               /\ conversation_sessions[session_id] # NoObj
        session == heap[conversation_sessions[session_id]]
    IN  IF has /\ question_id \in session.refusals
        THEN Result("ok", << >>, FALSE)
        ELSE IF has /\ question_id \in DOMAIN session.links
        THEN Result("ok", session.links[question_id], FALSE)
        ELSE IF question = EmptyText THEN Result("ok", << >>, FALSE)
        ELSE IF ~is_substantial_question(question) THEN Result("ok", << >>, FALSE)
        ELSE IF ~env.collection THEN Result("error", << >>, FALSE)
        ELSE IF ~env.embedding_ok \/ ~env.query_ok THEN Result("raised", << >>, TRUE)
        ELSE Result("ok", recomputed, TRUE)

\* a lookup that hands the cached list over and forgets it
GetPmids_consumes(session_id, question_id, question, env) ==
    /\ \E recomputed \in ListsOf(get_pmids_from_contexts(env.result.documents,
                                     env.result.metadatas, env.result.chunk0)) :
          last_op' = Op("pmids", session_id, question_id, question,
                        get_pmids_api(session_id, question_id, question, env, recomputed))
    /\ heap' = [o \in DOMAIN heap |->
                  [heap[o] EXCEPT !.links =
                      [q \in DOMAIN heap[o].links \ {question_id} |-> heap[o].links[q]]]]
    /\ UNCHANGED <<sweep, question_log_lock, log_calls, refusal_patterns_file, refusal_responses_file, g_question,
                   g_language, g_result, conversation_sessions, now, req,
                   events, calls, question_log, aux>>

\* POST /api/pmids
GetPmids(session_id, question_id, question, env) ==
    /\ \E recomputed \in ListsOf(get_pmids_from_contexts(env.result.documents,
                                     env.result.metadatas, env.result.chunk0)) :
          last_op' = Op("pmids", session_id, question_id, question,
                        get_pmids_api(session_id, question_id, question, env, recomputed))
    /\ UNCHANGED <<sweep, question_log_lock, log_calls, refusal_patterns_file, refusal_responses_file, g_question,
                   g_language, g_result, conversation_sessions, heap, now, req,
                   events, calls, question_log, aux>>

\* GET /api/session_info
SessionInfo(session_id) ==
    /\ last_op' = Op("session_info", session_id, NoId, EmptyText,
                     [NoResult EXCEPT !.status = "ok",
                                      !.info = <<get_session_info(session_id)>>])
    /\ UNCHANGED <<sweep, question_log_lock, log_calls, refusal_patterns_file, refusal_responses_file, g_question,
                   g_language, g_result, conversation_sessions, heap, now, req,
                   events, calls, question_log, aux>>

\* POST /api/reset_session
ResetSession(session_id) ==
    /\ conversation_sessions' = reset_session_store(session_id)
    /\ last_op' = Op("reset", session_id, NoId, EmptyText,
                     [NoResult EXCEPT !.status =
                         IF session_id # NoId /\ conversation_sessions[session_id] # NoObj
                         THEN "success" ELSE "info"])
    /\ UNCHANGED <<sweep, question_log_lock, log_calls, refusal_patterns_file, refusal_responses_file, g_question,
                   g_language, g_result, heap, now, req, events, calls,
                   question_log, aux>>

\* refusal_engine called on its own
GateCall ==
    /\ g_result = << >>
    /\ g_result' = <<refusal_engine(g_question, g_language)>>
    /\ UNCHANGED <<sweep, question_log_lock, log_calls, refusal_patterns_file, refusal_responses_file, g_question,
                   g_language, conversation_sessions, heap, now, req, events,
                   calls, question_log, aux, last_op>>

(***************************************************************************)
(* The log functions step by step: api/logging.py                          *)
(***************************************************************************)
LogCalls == 1..NLog
NoCall == 0                    \* the lock is free

IdleCall ==
    [pc |-> "idle", fn |-> "none", question_id |-> NoId, arg |-> EmptyText,
     data |-> << >>]

\* everything but the log, its lock and the calls of the log functions
LogFrame ==
    UNCHANGED <<sweep, refusal_patterns_file, refusal_responses_file, g_question,
                g_language, g_result, conversation_sessions, heap, now, req,
                events, calls, aux, last_op>>

\* save_question_response, add_comment_to_question or add_like_to_question
\* is called: the call stands before `with question_log_lock`
LogCall(w, fn, question_id, arg) ==
    /\ log_calls[w].pc = "idle"
    /\ log_calls' = [log_calls EXCEPT ![w] =
                       [IdleCall EXCEPT !.pc = "waiting", !.fn = fn,
                                        !.question_id = question_id, !.arg = arg]]
    /\ UNCHANGED <<question_log, question_log_lock>>
    /\ LogFrame

\* a `with` that does not wait for the lock
LogAcquire_nowait(w) ==
    /\ log_calls[w].pc = "waiting"
    /\ question_log_lock' = w
    /\ log_calls' = [log_calls EXCEPT ![w].pc = "locked"]
    /\ UNCHANGED question_log
    /\ LogFrame

\* with question_log_lock: entered once the lock is free
LogAcquire(w) ==
    /\ log_calls[w].pc = "waiting"
    /\ question_log_lock = NoCall
    /\ question_log_lock' = w
    /\ log_calls' = [log_calls EXCEPT ![w].pc = "locked"]
    /\ UNCHANGED question_log
    /\ LogFrame

\* data = json.load(f)
LogRead(w) ==
    /\ log_calls[w].pc = "locked"
    /\ log_calls' = [log_calls EXCEPT ![w].pc = "read", ![w].data = question_log]
    /\ UNCHANGED <<question_log, question_log_lock>>
    /\ LogFrame

\* the first entry of `data` with the question id, 0 when there is none
FirstEntry(data, question_id) ==
    IF \E i \in 1..Len(data) : data[i].question_id = question_id
    THEN CHOOSE i \in 1..Len(data) :
            /\ data[i].question_id = question_id
            /\ \A j \in 1..(i - 1) : data[j].question_id # question_id
    ELSE 0

\* what the call writes to the file, from the `data` it has read
LogWritten(c) ==
    IF c.fn = "save"
    THEN Append(c.data, LogEntry(c.question_id, QLogged, c.arg))
    ELSE IF c.fn = "comment"
    THEN [c.data EXCEPT ![FirstEntry(c.data, c.question_id)].comments = <<c.arg>>]
    ELSE [c.data EXCEPT ![FirstEntry(c.data, c.question_id)].likes = <<c.arg>>]

\* the rest of the `with` block: the entry is appended or updated, the file
\* is written (a comment or a vote for an unknown id writes nothing), and the
\* lock is released
LogWrite(w) ==
    /\ log_calls[w].pc = "read"
    /\ LET c == log_calls[w]
       IN  question_log' =
               IF c.fn # "save" /\ FirstEntry(c.data, c.question_id) = 0
               THEN question_log ELSE LogWritten(c)
    /\ question_log_lock' = IF question_log_lock = w THEN NoCall ELSE question_log_lock
    /\ log_calls' = [log_calls EXCEPT ![w].pc = "returned"]
    /\ LogFrame

(***************************************************************************)
(* Inputs                                                                  *)
(***************************************************************************)
QAllow == JoinWords(<<"bienfaits", "des", "fibres">>)
QRefuse == JoinWords(<<"medicament", "pour", "diabete">>)
QShort == <<"merci">>

Input(question, language) == [question |-> question, language |-> language]

\* the concurrent specification's inputs
Inputs == {Input(QAllow, "fr"), Input(QRefuse, "fr"), Input(QRefuse, "es")}

ReplyPlain == << <<<<WS, "les", WS, "fibres">>>> >>
ReplyDisclaimer == << <<<<"Voir", WS, "un">>>>, <<<<WS, "medecin">>>> >>
ReplyMarker == << <<REFUSAL_MARKER>>, <<<<"ok">>>> >>
ReplyEmptyFirst == << <<EmptyText>>, <<<<WS, "ok">>>> >>

EnvOK(result, supplier, reply, reply_raises) ==
    Env(TRUE, TRUE, TRUE, result, TRUE, supplier, TRUE, reply, reply_raises)

EnvDown == Env(FALSE, TRUE, TRUE, ResEmpty, TRUE, "openai", TRUE, << >>, FALSE)
EnvEmbeddingFails == Env(TRUE, FALSE, TRUE, ResEmpty, TRUE, "openai", TRUE, << >>, FALSE)
EnvNoDocuments == Env(TRUE, TRUE, TRUE, ResEmpty, TRUE, "openai", TRUE, << >>, FALSE)
EnvNoTemplate == Env(TRUE, TRUE, TRUE, ResAnnotated, FALSE, "openai", TRUE, << >>, FALSE)
EnvBadSupplier == Env(TRUE, TRUE, TRUE, ResAnnotated, TRUE, "other", TRUE, << >>, FALSE)

Envs == {EnvOK(ResAnnotated, "openai", ReplyPlain, FALSE), EnvDown}

EnvDisclaimer == EnvOK(ResAnnotated, "openai", ReplyDisclaimer, FALSE)

GateWords ==
    {"medicament", "MEDICAMENT", "insuline", "drug", "enfant", "urgence", "diabete",
     "menu", "mon", "supplement", "grammes", "fibres"}

GateQuestions ==
    {JoinWords(ws) : ws \in UNION {[1..n -> GateWords] : n \in 0..MaxWords}}

(***************************************************************************)
(* Specifications                                                          *)
(***************************************************************************)
InitStore ==
    /\ conversation_sessions = [sid \in SessionIds |-> NoObj]
    /\ heap = [o \in Objs |-> NewSession(0)]
    /\ now = 0
    /\ req = [r \in Reqs |-> IdleReq]
    /\ events = [r \in Reqs |-> << >>]
    /\ calls = [r \in Reqs |-> {}]
    /\ question_log = << >>
    /\ question_log_lock = NoCall
    /\ log_calls = [w \in LogCalls |-> IdleCall]
    /\ sweep = IdleSweep
    /\ aux = [r \in Reqs |-> [alone |-> TRUE, before |-> << >>, after |-> << >>]]
    /\ last_op = NoOp

Init ==
    /\ refusal_patterns_file \in {File(PatternsData), NoFile}
    /\ refusal_responses_file = File(ResponsesData)
    /\ g_question = EmptyText
    /\ g_language = "fr"
    /\ g_result = << >>
    /\ InitStore

DoQuery ==
    \E r \in Reqs, inp \in Inputs, sid_in \in GivenSessionIds :
        query_agent(r, inp.question, inp.language, sid_in)

DoBootstrap == \E r \in Reqs : Bootstrap(r)
DoAsk == \E r \in Reqs, env \in Envs : Ask(r, env)
DoStreamStep == \E r \in Reqs : StreamStep(r)
DoFinal == \E r \in Reqs : Final(r)

Next ==
    \/ DoQuery
    \/ DoBootstrap
    \/ DoAsk
    \/ DoStreamStep
    \/ DoFinal

Spec == Init /\ [][Next]_vars

\* The risk gate alone, on every question of up to MaxWords words
InitGate ==
    /\ refusal_patterns_file = File(PatternsData)
    /\ refusal_responses_file = File(ResponsesData)
    /\ g_question \in GateQuestions
    /\ g_language \in Languages
    /\ g_result = << >>
    /\ InitStore

NextGate == GateCall

SpecGate == InitGate /\ [][NextGate]_vars

\* Requests one after another, on every input and every answer of the
\* collaborators, with the session endpoints
EnvsSeq ==
    Envs \cup {EnvDisclaimer,
               EnvOK(ResPlain, "gemini", ReplyMarker, FALSE),
               EnvOK(ResInText, "openai", ReplyEmptyFirst, TRUE),
               EnvBadSupplier}

Quiet == \A q \in Reqs : ~InFlight(q)

DoSeqQuery ==
    /\ Quiet
    /\ \E r \in Reqs, inp \in Inputs, sid_in \in GivenSessionIds :
          query_agent(r, inp.question, inp.language, sid_in)

DoSeqAsk == \E r \in Reqs, env \in EnvsSeq : Ask(r, env)

DoSessionInfo ==
    /\ last_op.op = "none"
    /\ \E session_id \in KnownSessionIds \ {NoId} : SessionInfo(session_id)

DoResetSession == \E session_id \in KnownSessionIds : ResetSession(session_id)

NextSeq ==
    \/ DoSeqQuery
    \/ DoBootstrap
    \/ DoSeqAsk
    \/ DoStreamStep
    \/ DoFinal
    \/ DoSessionInfo

SpecSeq == Init /\ [][NextSeq]_vars

\* Requests one after another, each on a session of its own or on the first
\* request's, with the reference lookup; a client repeats a lookup or makes it
\* after another operation
LookupQuestions == {EmptyText, QAllow, QShort}

LookupEnvs ==
    {EnvEmbeddingFails, EnvOK(ResInText, "openai", << >>, FALSE),
     EnvOK(ResChunk0, "openai", << >>, FALSE)}

DoLookupQuery ==
    /\ Quiet
    /\ \E r \in Reqs, inp \in {Input(QAllow, "fr"), Input(QRefuse, "fr")},
          sid_in \in GivenSessionIds \cap {NoId, uuid4(1)} :
          query_agent(r, inp.question, inp.language, sid_in)

DoLookupAsk == \E r \in Reqs, env \in Envs \cup {EnvDisclaimer} : Ask(r, env)

\* a turn is looked up once the client has its id (the bootstrap event), under
\* the session id that came with it or under an id the store does not know
DoGetPmids ==
    \E q \in {q \in Reqs : req[q].pc \notin {"idle", "boot"}},
       question \in LookupQuestions, env \in LookupEnvs :
    \E question_id \in {uuid4(q)},
       session_id \in {req[q].session_id, ClientSessionId} :
        /\ last_op.op = "pmids" =>
              /\ last_op.session_id = session_id
              /\ last_op.question_id = question_id
              /\ last_op.question = question
        /\ GetPmids(session_id, question_id, question, env)

NextLookup ==
    \/ DoLookupQuery
    \/ DoBootstrap
    \/ DoLookupAsk
    \/ DoStreamStep
    \/ DoFinal
    \/ DoGetPmids

SpecLookup == Init /\ [][NextLookup]_vars

(***************************************************************************)
(* The risk gate's decision table, read off the categories a question      *)
(* matches                                                                 *)
(***************************************************************************)
Categories ==
    {"medication", "minor", "possible_emergency", "clinical_condition", "meal_plan",
     "personalized_request", "supplement", "numeric_targets"}

\* the categories with a pattern, in the table of the language or else of
\* French, that occurs in the question whatever its case
CategoriesOf(question, language) ==
    LET table == IF language \in DOMAIN PatternsData
                 THEN PatternsData[language] ELSE PatternsData["fr"]
    IN  {table[i].category : i \in
            {i \in 1..Len(table) :
                \E k \in 1..Len(table[i].pats), j \in 1..Len(question) :
                    LowerText(<<question[j]>>) = LowerText(<<table[i].pats[k]>>)}}

GateCategories == CategoriesOf(g_question, g_language)

FirstRule(cats) ==
    IF "medication" \in cats THEN 1
    ELSE IF "minor" \in cats /\ cats \cap {"personalized_request", "meal_plan"} # {}
    THEN 2
    ELSE IF "possible_emergency" \in cats THEN 3
    ELSE IF "clinical_condition" \in cats THEN 4
    ELSE IF "meal_plan" \in cats THEN 5
    ELSE IF "personalized_request" \in cats THEN 6
    ELSE IF "supplement" \in cats THEN 7
    ELSE IF "numeric_targets" \in cats THEN 8
    ELSE 9

RuleDecision ==
    <<"refuse", "refuse", "refuse", "refuse", "refuse", "refuse",
      "allow_with_constraints", "allow_with_constraints", "allow">>

RuleReasons ==
    << <<"Medication / clinical compatibility question">>,
       <<"Minor + weight/plan/personalized request">>,
       <<"Possible emergency / urgent situation">>,
       <<"Clinical condition mentioned">>,
       <<"Meal plan request">>,
       <<"Personalized recommendation request">>,
       <<"Supplement mentioned (allow general info only)">>,
       <<"Numeric targets mentioned (avoid numbers in reply)">>,
       << >> >>

GateReturned == g_result # << >> /\ ~g_result[1].raised

\* C3: a question that matches a pattern of the medication category is
\* refused with the medication refusal response of its language (of French
\* when the response table has no such language), whatever else it matches.
C3_MedicationRefused ==
    (g_result # << >> /\ "medication" \in GateCategories) =>
        /\ GateReturned
        /\ g_result[1].decision = "refuse"
        /\ g_result[1].response =
              << (IF g_language \in DOMAIN ResponsesData
                  THEN ResponsesData[g_language]
                  ELSE ResponsesData["fr"]).medication_refusal >>

\* a question that matches medication and two other categories was refused
C3_Witness ==
    /\ GateReturned
    /\ "medication" \in GateCategories
    /\ Cardinality(GateCategories) >= 3
    /\ g_result[1].decision = "refuse"

\* C4: the gate returns one decision, that of the first applicable rule of
\* the fixed order over the matched categories, with that rule's reason.
C4_FirstApplicableRule ==
    g_result # << >> =>
        /\ GateReturned
        /\ g_result[1].decision = RuleDecision[FirstRule(GateCategories)]
        /\ g_result[1].reasons = RuleReasons[FirstRule(GateCategories)]
        /\ Range(g_result[1].matched_categories) = GateCategories

\* a minor's meal plan with a supplement: rule 2 wins over rules 5 and 7
C4_Witness ==
    /\ GateReturned
    /\ GateCategories = {"minor", "meal_plan", "supplement"}
    /\ g_result[1].reasons = RuleReasons[2]

(***************************************************************************)
(* Requests: what a client sees and what a session keeps                   *)
(***************************************************************************)
Completed(r) == req[r].pc = "done"

GateRefused(r) == req[r].decision = "refuse"

GateAllowed(r) == req[r].decision \in {"allow", "allow_with_constraints"}

SessionOf(r) == heap[req[r].session]

\* the content fragments a request has emitted, in order
ChunksOf(r) ==
    LET es == SelectSeq(events[r], LAMBDA e : e.type = "chunk")
    IN  [i \in 1..Len(es) |-> es[i].chunk]

LinksEventsOf(r) == SelectSeq(events[r], LAMBDA e : e.type = "links")

LastEvent(r) == events[r][Len(events[r])]

\* the canned responses of a language
ResponsesIn(language) == Range(ResponsesData[language])

\* C1: once a request the gate refused has completed, the session's history
\* holds no user turn of that request, whatever the other requests on the
\* session did meanwhile.
C1_RefusedTurnAbsent ==
    \A r \in Reqs :
        (Completed(r) /\ GateRefused(r)) =>
            \A i \in 1..Len(SessionOf(r).messages) :
                ~(SessionOf(r).messages[i].role = "user"
                  /\ SessionOf(r).messages[i].turn = r)

\* C2: a request the gate refused calls neither the embedding provider, nor
\* the index, nor the generation backend, and the only content it emits is
\* one canned response.
C2_RefuseCallsNothing ==
    \A r \in Reqs :
        GateRefused(r) =>
            /\ calls[r] = {}
            /\ \A i \in 1..Len(ChunksOf(r)) :
                  ChunksOf(r)[i] \in ResponsesIn("fr") \cup ResponsesIn("en")
            /\ req[r].pc \in {"final", "done"} => Len(ChunksOf(r)) = 1

\* a refused request has completed while another request called the backend
C2_Witness ==
    \E r, o \in Reqs :
        /\ Completed(r) /\ GateRefused(r) /\ Len(ChunksOf(r)) = 1
        /\ "generation" \in calls[o]

\* C5: a request's events are the bootstrap event with its session id and
\* turn id, then content fragments, then the reference list; nothing comes
\* after the reference list, and a completed request has emitted exactly one.
C5_EventOrder ==
    \A r \in Reqs :
        LET es == events[r]
        IN  /\ req[r].pc \in {"idle", "boot"} <=> es = << >>
            /\ es # << >> =>
                  /\ es[1].type = "bootstrap"
                  /\ es[1].session_id = req[r].session_id
                  /\ es[1].question_id = uuid4(r)
            /\ \A i \in 2..Len(es) :
                  /\ es[i].type \in {"chunk", "links"}
                  /\ es[i].type = "links" => i = Len(es)
            /\ Completed(r) <=> Len(LinksEventsOf(r)) = 1

\* a completed request emitted two content fragments before its reference list
C5_Witness ==
    \E r \in Reqs :
        /\ Completed(r)
        /\ Len(ChunksOf(r)) = 2
        /\ LastEvent(r).type = "links"
        /\ LastEvent(r).links # << >>

\* C6: an allowed request whose answer holds a disclaimer phrase ends with an
\* empty reference list, and its turn id is in the session's refusal set.
C6_DisclaimerHidesLinks ==
    \A r \in Reqs :
        (Completed(r) /\ GateAllowed(r)
           /\ contains_medical_disclaimer(req[r].assistant_response)) =>
            /\ LastEvent(r).type = "links"
            /\ LastEvent(r).links = << >>
            /\ uuid4(r) \in SessionOf(r).refusals

\* the answer holds "voir un medecin" and the session caches two references
C6_Witness ==
    \E r \in Reqs :
        /\ Completed(r) /\ GateAllowed(r)
        /\ Contains(LowerText(req[r].assistant_response),
                    <<"voir", WS, "un", WS, "medecin">>)
        /\ Len(DictGet(SessionOf(r).links, uuid4(r), << >>)) = 2
        /\ LastEvent(r).links = << >>

\* The effect of a refused request that ran alone on its session, but for
\* its content
RefusedAlone(r) == Completed(r) /\ GateRefused(r) /\ aux[r].alone

RefusalFrame(r) ==
    /\ aux[r].after = aux[r].before
    /\ Len(ChunksOf(r)) = 1
    /\ LastEvent(r).type = "links"
    /\ LastEvent(r).links = << >>

\* C9 as stated: a refused request that ran alone leaves the history as it
\* was, returns an empty reference list, and its only content is a canned
\* response in the request's language.
C9_AsStated ==
    \A r \in Reqs :
        RefusedAlone(r) =>
            /\ RefusalFrame(r)
            /\ req[r].language \in DOMAIN ResponsesData
            /\ ChunksOf(r)[1] \in ResponsesIn(req[r].language)

\* C9: a refused request that ran alone leaves the history as it was, returns
\* an empty reference list, and its only content is a canned response in the
\* request's language when the response table has that language, in French
\* otherwise.
C9_RefusalAlone ==
    \A r \in Reqs :
        RefusedAlone(r) =>
            /\ RefusalFrame(r)
            /\ ChunksOf(r)[1] \in ResponsesIn(IF req[r].language \in DOMAIN ResponsesData
                                              THEN req[r].language ELSE "fr")

\* a refused request in Spanish ran alone on a session that already had two
\* turns
C9_Witness ==
    \E r \in Reqs :
        /\ RefusedAlone(r)
        /\ Len(aux[r].before) = 2
        /\ aux[r].after = aux[r].before
        /\ req[r].language = "es"

(***************************************************************************)
(* The reference lookup and session_info, read off the response just       *)
(* returned: last_op holds it until the next operation that is not a       *)
(* lookup                                                                  *)
(***************************************************************************)
LookedUp == last_op.op = "pmids"

LookupSessionExists == conversation_sessions[last_op.session_id] # NoObj

LookupSession == heap[conversation_sessions[last_op.session_id]]

LookupRefused == LookupSessionExists /\ last_op.question_id \in LookupSession.refusals

LookupCached == LookupSessionExists /\ last_op.question_id \in DOMAIN LookupSession.links

\* C7: the lookup returns the list cached for the turn when the session
\* exists, the turn is cached and not in the refusal set; an empty list when
\* the turn is in the refusal set; otherwise it queries the index only for a
\* substantial question and returns an empty list for no question or one
\* that is not substantial.
C7_LookupContract ==
    LookedUp =>
        /\ (LookupCached /\ ~LookupRefused) =>
              /\ last_op.result.pmids = LookupSession.links[last_op.question_id]
              /\ ~last_op.result.retrieved
        /\ LookupRefused =>
              /\ last_op.result.pmids = << >>
              /\ ~last_op.result.retrieved
        /\ (~LookupCached /\ ~LookupRefused) =>
              /\ last_op.result.retrieved =>
                    /\ last_op.question # EmptyText
                    /\ is_substantial_question(last_op.question)
              /\ (last_op.question = EmptyText
                  \/ ~is_substantial_question(last_op.question)) =>
                    last_op.result.pmids = << >>

\* a turn flagged for its disclaimer, with two cached references, looked up
C7_Witness ==
    /\ LookedUp
    /\ LookupRefused
    /\ LookupCached
    /\ Len(LookupSession.links[last_op.question_id]) = 2
    /\ last_op.result.pmids = << >>

\* a lookup step that follows a lookup for the same session and turn, the
\* turn's request having completed on that session
SecondLookup ==
    /\ last_op.op = "pmids"
    /\ last_op'.op = "pmids"
    /\ last_op'.session_id = last_op.session_id
    /\ last_op'.question_id = last_op.question_id
    /\ last_op'.question = last_op.question
    /\ Completed(last_op.question_id)
    /\ req[last_op.question_id].session_id = last_op.session_id

LookupChangesNothing ==
    last_op'.op = "pmids" =>
        /\ heap' = heap
        /\ conversation_sessions' = conversation_sessions

RequestsOn(session_id) ==
    {q \in Reqs : req[q].pc # "idle" /\ req[q].session_id = session_id}

\* C10: for a session created by a query without session id, once the
\* requests made on it one after another have completed, session_info
\* reports that it exists, with two messages per request the gate did not
\* refuse and none per request it refused.
C10_SessionInfoCount ==
    \A session_id \in Reqs :
        (/\ last_op.op = "session_info"
         /\ last_op.session_id = session_id
         /\ conversation_sessions[session_id] = session_id
         /\ \A q \in RequestsOn(session_id) : Completed(q)) =>
            /\ last_op.result.info[1].exists
            /\ last_op.result.info[1].message_count =
                  2 * Cardinality({q \in RequestsOn(session_id) : ~GateRefused(q)})

(***************************************************************************)
(* The history block of a request on a session with earlier turns          *)
(***************************************************************************)
\* the history a session holds after earlier requests: n entries, user and
\* assistant in turn, each with a content of its own
EarlierTurns(n) ==
    [i \in 1..n |-> Message(IF i % 2 = 1 THEN "user" ELSE "assistant", <<ToString(i)>>, 0)]

InitHistory ==
    /\ refusal_patterns_file = File(PatternsData)
    /\ refusal_responses_file = File(ResponsesData)
    /\ g_question = EmptyText
    /\ g_language = "fr"
    /\ g_result = << >>
    /\ now = 0
    /\ req = [r \in Reqs |-> IdleReq]
    /\ events = [r \in Reqs |-> << >>]
    /\ calls = [r \in Reqs |-> {}]
    /\ question_log = << >>
    /\ question_log_lock = NoCall
    /\ log_calls = [w \in LogCalls |-> IdleCall]
    /\ sweep = IdleSweep
    /\ aux = [r \in Reqs |-> [alone |-> TRUE, before |-> << >>, after |-> << >>]]
    /\ last_op = NoOp
    /\ \E n \in 0..MaxHistory :
          /\ conversation_sessions =
                [sid \in SessionIds |-> IF sid = ClientSessionId /\ n > 0 THEN OldObj ELSE NoObj]
          /\ heap = [o \in Objs |->
                       IF o = OldObj THEN [NewSession(0) EXCEPT !.messages = EarlierTurns(n)]
                       ELSE NewSession(0)]

DoHistoryQuery ==
    /\ Quiet
    /\ \E r \in Reqs, question \in {QAllow, QRefuse} :
          query_agent(r, question, "fr", ClientSessionId)

DoHistoryAsk == \E r \in Reqs, env \in Envs : Ask(r, env)

NextHistory ==
    \/ DoHistoryQuery
    \/ DoBootstrap
    \/ DoHistoryAsk
    \/ DoStreamStep
    \/ DoFinal

SpecHistory == InitHistory /\ [][NextHistory]_vars

\* the last n entries of a history, oldest first
LastEntries(h, n) == SubSeq(h, IF Len(h) > n THEN Len(h) - n + 1 ELSE 1, Len(h))

\* a request whose history block has been assembled
Assembled(r) == req[r].pc \in {"stream", "final", "done", "failed"}

\* C11: for requests run one after another on one session id, the history
\* block of a request is made, oldest first, of the up to 6 entries that
\* precede the request's own user turn; it is empty when nothing precedes it.
C11_HistoryBlock ==
    \A r \in Reqs :
        Assembled(r) =>
            LET entries == LastEntries(aux[r].before, 6)
            IN  req[r].history_text =
                    IF entries = << >> THEN EmptyText
                    ELSE <<"HISTORIQUE DE LA CONVERSATION:", "\n">> \o history_lines(entries)

\* the second of two allowed queries in a row, on a session that held more
\* than six entries before it, has completed with the first one's answer in
\* its block
C11_Witness ==
    /\ Completed(1) /\ Completed(2) /\ GateAllowed(1) /\ GateAllowed(2)
    /\ Len(aux[2].before) > 6
    /\ \E i \in 1..Len(aux[2].before) :
          /\ aux[2].before[i].turn = 1 /\ aux[2].before[i].role = "assistant"
          /\ Contains(req[2].history_text, history_line(aux[2].before[i]))

(***************************************************************************)
(* One request and the lookups of its turn, over the index's answers       *)
(***************************************************************************)
QFewWords == JoinWords(<<"bienfaits", "de", "fibres">>)
QGeneric == JoinWords(<<"Pose", "une", "question">>) \o <<"?">>
QPadded == <<WS, WS, "bonjour", WS, WS>>

RefsQuestions == {QAllow, QShort, QFewWords, QGeneric, QPadded}

RefsEnvs ==
    {EnvOK(ResAnnotated, "openai", ReplyPlain, FALSE),
     EnvOK(ResAnnotatedTwo, "openai", ReplyPlain, FALSE),
     EnvOK(ResInText, "openai", ReplyPlain, FALSE),
     EnvOK(ResChunk0, "openai", ReplyPlain, FALSE),
     EnvOK(ResPlain, "openai", ReplyPlain, FALSE),
     EnvDisclaimer, EnvNoTemplate, EnvDown}

DoRefsQuery == \E question \in RefsQuestions : query_agent(1, question, "fr", NoId)

DoRefsAsk == \E env \in RefsEnvs : Ask(1, env)

DoRefsGetPmids ==
    /\ req[1].pc \notin {"idle", "boot"}
    /\ \E question \in {req[1].question, QShort},
          session_id \in {req[1].session_id, ClientSessionId},
          env \in {EnvDown, EnvOK(ResAnnotated, "openai", << >>, FALSE),
                   EnvOK(ResChunk0, "openai", << >>, FALSE)} :
          GetPmids(session_id, uuid4(1), question, env)

NextRefs ==
    \/ DoRefsQuery
    \/ Bootstrap(1)
    \/ DoRefsAsk
    \/ StreamStep(1)
    \/ Final(1)
    \/ DoRefsGetPmids

SpecRefs == Init /\ [][NextRefs]_vars

\* a question the filter is to decline: short once trimmed, or with fewer
\* than 3 words of 3 characters or more, or a generic phrase with or without
\* a final '?'
NonSubstantial(question) ==
    \/ TextLen(strip(question)) < 10
    \/ Cardinality({i \in 1..Len(split(question)) : TextLen(split(question)[i]) >= 3}) < 3
    \/ \E i \in 1..Len(generic_phrases) :
          strip(LowerText(question)) \in {generic_phrases[i], generic_phrases[i] \o <<"?">>}

\* the reference list a request's session caches for the request's turn
CachedLinks(r) ==
    IF uuid4(r) \in DOMAIN SessionOf(r).links THEN SessionOf(r).links[uuid4(r)] ELSE << >>

Retrieved(r) == Assembled(r) /\ req[r].contexts # << >>

Annotated(r) == \E i \in 1..Len(req[r].metadatas) : req[r].metadatas[i].links # EmptyText

\* the identifiers written in the annotations of a request's passages
AnnotatedIds(r) ==
    {id \in Digits : \E i \in 1..Len(req[r].metadatas) : id \in Range(req[r].metadatas[i].links)}

\* the reference string of an identifier
Reference(id) == <<"PMID:", WS, id>>

\* C13: for a substantial question with at least one passage carrying a
\* non-empty annotation, the references computed for the turn are the
\* annotated identifiers of all passages, each once, and nothing else, and
\* chunk zero is not fetched.
C13_AnnotationsFirst ==
    \A r \in Reqs :
        Retrieved(r) /\ ~NonSubstantial(req[r].question) /\ Annotated(r) =>
            /\ Range(CachedLinks(r)) = {Reference(id) : id \in AnnotatedIds(r)}
            /\ Len(CachedLinks(r)) = Cardinality(AnnotatedIds(r))
            /\ "extractor" \in calls[r] /\ "chunk0" \notin calls[r]

\* three passages, two of them annotated with an identifier in common, the
\* text of one holding an identifier no annotation has
C13_Witness ==
    /\ Completed(1) /\ req[1].question = QAllow
    /\ Len(req[1].metadatas) = 3 /\ AnnotatedIds(1) = {"12345", "67890"}
    /\ TextLinks(req[1].contexts) = {Reference("111")}
    /\ Len(CachedLinks(1)) = 2

\* the passages of a request are one passage tagged links: "12345,67890"
TaggedPassage(r) ==
    /\ Retrieved(r) /\ Len(req[r].metadatas) = 1
    /\ req[r].metadatas[1].links = <<"12345", ",", "67890">>

\* the list of a request's final reference-list event
FinalEventLinks(r) == LinksEventsOf(r)[1].links

\* C14 as stated: an allowed, substantial question whose passage is tagged
\* links: "12345,67890" gets, in the final event and in the session's cache
\* for the turn, exactly the identifiers "12345" and "67890".
C14_AsStated ==
    \A r \in Reqs :
        Completed(r) /\ GateAllowed(r) /\ ~NonSubstantial(req[r].question)
            /\ TaggedPassage(r) =>
            /\ Range(CachedLinks(r)) = {<<"12345">>, <<"67890">>}
            /\ Range(FinalEventLinks(r)) = {<<"12345">>, <<"67890">>}

\* C14: for such a request the session caches, for the turn, the two
\* references "PMID: 12345" and "PMID: 67890" in either order, and the final
\* event carries that list, or no reference when the answer was taken for a
\* refusal or holds a medical disclaimer.
C14_TaggedReferences ==
    \A r \in Reqs :
        Completed(r) /\ GateAllowed(r) /\ ~NonSubstantial(req[r].question)
            /\ TaggedPassage(r) =>
            /\ Range(CachedLinks(r)) = {Reference("12345"), Reference("67890")}
            /\ Len(CachedLinks(r)) = 2
            /\ FinalEventLinks(r) =
                  IF req[r].is_refusal \/ contains_medical_disclaimer(req[r].assistant_response)
                  THEN << >> ELSE CachedLinks(r)

C14_Witness ==
    /\ Completed(1) /\ GateAllowed(1) /\ req[1].question = QAllow /\ TaggedPassage(1)
    /\ "generation" \in calls[1]
    /\ FinalEventLinks(1) = <<Reference("67890"), Reference("12345")>>

(***************************************************************************)
(* The session store over time: requests one after another, resets, and    *)
(* the clock                                                               *)
(***************************************************************************)
DoSweepQuery ==
    /\ Quiet
    /\ \E r \in Reqs, sid_in \in KnownSessionIds :
          query_agent(r, QAllow, "fr", sid_in)

\* the index is down: the request ends with the error fragment
DoSweepAsk == \E r \in Reqs : Ask(r, EnvDown)

NextSweep ==
    \/ DoSweepQuery
    \/ DoBootstrap
    \/ DoSweepAsk
    \/ DoFinal
    \/ DoResetSession
    \/ Tick

InitLoaded ==
    /\ refusal_patterns_file = File(PatternsData)
    /\ refusal_responses_file = File(ResponsesData)
    /\ g_question = EmptyText
    /\ g_language = "fr"
    /\ g_result = << >>
    /\ InitStore

SpecSweep == InitLoaded /\ [][NextSweep]_vars

Stale ==
    {sid \in SessionIds :
        conversation_sessions[sid] # NoObj
            /\ now - heap[conversation_sessions[sid]].last_activity > 2}

\* request r starts in this step
Starts(r) == req[r].pc = "idle" /\ req'[r].pc = "boot"

\* C16: the step that starts a query request removes from the store every
\* session idle for more than 2 hours and no other session, before it
\* resolves its own: a request that carries the id of such a session gets a
\* new session, with no history before its own turn, no cached reference and
\* no refused turn.
C16_SweepAtStart ==
    [][\A r \in Reqs :
          Starts(r) =>
              LET own == req'[r].session_id
              IN  /\ \A sid \in SessionIds \ {own} :
                        conversation_sessions'[sid] =
                            IF sid \in Stale THEN NoObj ELSE conversation_sessions[sid]
                  /\ own \notin Stale /\ conversation_sessions[own] # NoObj =>
                        conversation_sessions'[own] = conversation_sessions[own]
                  /\ own \in Stale =>
                        /\ conversation_sessions'[own] \notin {NoObj, conversation_sessions[own]}
                        /\ aux'[r].before = << >>
                        /\ Len(heap'[req'[r].session].messages) = 1
                        /\ heap'[req'[r].session].messages[1].turn = r
                        /\ DOMAIN heap'[req'[r].session].links = {}
                        /\ heap'[req'[r].session].refusals = {}
                        /\ heap'[req'[r].session].created_at = now]_vars

\* a request has started under the id of a session that had held a turn and
\* was idle for more than 2 hours: it is on another session object
C16_Witness ==
    \E r \in Reqs, q \in Reqs :
        /\ q < r /\ req[q].pc = "done" /\ req[r].pc = "boot"
        /\ req[r].session_id = req[q].session_id
        /\ req[r].session # req[q].session
        /\ heap[req[q].session].messages # << >>
        /\ heap[req[r].session].created_at - heap[req[q].session].last_activity > 2
        /\ conversation_sessions[req[r].session_id] = req[r].session

(***************************************************************************)
(* One request over the answers of the generation backend                  *)
(***************************************************************************)
\* what the backend's stream may deliver as one fragment: no content, an
\* empty text, blanks, and text with and without a leading blank
Fragments == {<< >>, <<EmptyText>>, <<<<WS>>>>, <<<<WS, "ok">>>>}

Replies == UNION {[1..n -> Fragments] : n \in 0..MaxFrags}

StreamEnvs ==
    {EnvOK(ResAnnotated, supplier, reply, reply_raises) :
        supplier \in {"openai", "gemini"}, reply \in Replies, reply_raises \in BOOLEAN}
    \cup {EnvDown, EnvEmbeddingFails, EnvNoDocuments, EnvNoTemplate, EnvBadSupplier,
           Env(TRUE, TRUE, FALSE, ResEmpty, TRUE, "openai", TRUE, << >>, FALSE),
           Env(TRUE, TRUE, TRUE, ResAnnotated, TRUE, "openai", FALSE, << >>, FALSE)}

DoStreamQuery == \E question \in {QAllow, QRefuse} : query_agent(1, question, "fr", NoId)

DoStreamAsk == \E env \in StreamEnvs : Ask(1, env)

NextStream ==
    \/ DoStreamQuery
    \/ Bootstrap(1)
    \/ DoStreamAsk
    \/ StreamStep(1)
    \/ Final(1)
    \/ Cancel(1)

SpecStream == InitLoaded /\ [][NextStream]_vars

\* the texts the orchestrator emits on a failure
ErrorFragments ==
    {ErrNoCollection, ErrNoDocuments, ErrNoTemplate, ErrSupplier, ErrProcessing}

\* C17: a completed request in which retrieval, prompt assembly or
\* generation failed has emitted an error or diagnostic fragment, and the
\* list of its final reference-list event is empty.
C17_FailureEmptyReferences ==
    \A r \in Reqs :
        Completed(r) /\ req[r].failure # "none" =>
            /\ Range(ChunksOf(r)) \cap ErrorFragments # {}
            /\ FinalEventLinks(r) = << >>

\* C18: a completed request has emitted at least one content fragment that
\* is not empty.
C18_NonEmptyAnswer ==
    \A r \in Reqs :
        Completed(r) => \E i \in 1..Len(ChunksOf(r)) : ChunksOf(r)[i] # EmptyText

\* the log holds an entry for request r with what it had generated
Logged(r) ==
    \E i \in 1..Len(question_log) :
        /\ question_log[i].question_id = uuid4(r)
        /\ question_log[i].question = req[r].question
        /\ question_log[i].response = req[r].assistant_response

\* C19: a request aborted because the connection was dropped after a content
\* fragment and before the end of the stream has its log entry, with the
\* turn id, the question and the answer generated so far.
C19_CancelledIsLogged ==
    \A r \in Reqs : req[r].pc = "cancelled" => Logged(r)

(***************************************************************************)
(* Concurrent calls of the log functions on a log that holds an entry      *)
(***************************************************************************)
\* the turn logged before the calls
EarlierTurn == NLog + 1

LoggedBefore == <<LogEntry(EarlierTurn, QLogged, <<"ok">>)>>

InitLog ==
    /\ refusal_patterns_file = File(PatternsData)
    /\ refusal_responses_file = File(ResponsesData)
    /\ g_question = EmptyText
    /\ g_language = "fr"
    /\ g_result = << >>
    /\ conversation_sessions = [sid \in SessionIds |-> NoObj]
    /\ heap = [o \in Objs |-> NewSession(0)]
    /\ now = 0
    /\ req = [r \in Reqs |-> IdleReq]
    /\ events = [r \in Reqs |-> << >>]
    /\ calls = [r \in Reqs |-> {}]
    /\ question_log = LoggedBefore
    /\ question_log_lock = NoCall
    /\ log_calls = [w \in LogCalls |-> IdleCall]
    /\ sweep = IdleSweep
    /\ aux = [r \in Reqs |-> [alone |-> TRUE, before |-> << >>, after |-> << >>]]
    /\ last_op = NoOp

\* a save of the call's own turn, or a comment or a vote on the earlier turn
\* or on the turn of the first call
DoLogCall ==
    \E w \in LogCalls :
        \/ LogCall(w, "save", uuid4(w), <<"answer">>)
        \/ \E question_id \in {EarlierTurn, uuid4(1)} :
              \/ LogCall(w, "comment", question_id, <<"bien">>)
              \/ LogCall(w, "like", question_id, <<"like">>)

DoLogAcquire == \E w \in LogCalls : LogAcquire(w)

DoLogRead == \E w \in LogCalls : LogRead(w)

DoLogWrite == \E w \in LogCalls : LogWrite(w)

NextLog ==
    \/ DoLogCall
    \/ DoLogAcquire
    \/ DoLogRead
    \/ DoLogWrite

SpecLog == InitLog /\ [][NextLog]_vars

\* the calls inside the read-modify-write cycle of the file
InCycle == {w \in LogCalls : log_calls[w].pc \in {"locked", "read"}}

Saves == {w \in LogCalls : log_calls[w].fn = "save"}

\* the positions of the log that hold an entry of a turn
EntriesOf(question_id) ==
    {i \in 1..Len(question_log) : question_log[i].question_id = question_id}

\* C20: whatever the interleaving of the calls of the three log functions,
\* at most one call is between its read and its write of the file; once
\* all calls have returned, the file holds the entry it held before and one
\* entry for each save, and nothing else.
C20_LogMutualExclusion ==
    /\ Cardinality(InCycle) <= 1
    /\ (\A w \in LogCalls : log_calls[w].pc = "returned") =>
          /\ Cardinality(EntriesOf(EarlierTurn)) = 1
          /\ \A w \in Saves : Cardinality(EntriesOf(log_calls[w].question_id)) = 1
          /\ Len(question_log) = 1 + Cardinality(Saves)

\* every call was a save and each has returned, on a log that held an
\* entry before
C20_Witness ==
    /\ Saves = LogCalls
    /\ \A w \in LogCalls : log_calls[w].pc = "returned"
    /\ Len(question_log) = 1 + NLog

(***************************************************************************)
(* Resets and session_info among requests that overlap                     *)
(***************************************************************************)
DoResetQuery ==
    \E r \in Reqs, sid_in \in KnownSessionIds : query_agent(r, QAllow, "fr", sid_in)

DoResetAsk == \E r \in Reqs : Ask(r, EnvOK(ResPlain, "openai", ReplyPlain, FALSE))

\* one session_info at a time, about any id a client may hold
DoResetInfo ==
    /\ last_op.op # "session_info"
    /\ \E session_id \in KnownSessionIds \ {NoId} : SessionInfo(session_id)

NextReset ==
    \/ DoResetQuery
    \/ DoBootstrap
    \/ DoResetAsk
    \/ DoStreamStep
    \/ DoFinal
    \/ DoResetSession
    \/ DoResetInfo

SpecReset == InitLoaded /\ [][NextReset]_vars

\* the step is a reset_session call
Resets == last_op'.op = "reset" /\ last_op' # last_op

\* C21: a reset of an existing session takes that session, and no other,
\* out of the store, and a reset of an absent or missing id changes nothing;
\* an id that is out of the store comes back only through a query that
\* carries it, on a new session with no history, whatever the requests still
\* streaming on the old session do; session_info reports exists exactly for
\* the ids in the store.
C21_ResetRemovesOne ==
    /\ [][Resets =>
            /\ \A sid \in SessionIds :
                  conversation_sessions'[sid] =
                      IF sid = last_op'.session_id THEN NoObj ELSE conversation_sessions[sid]
            /\ heap' = heap /\ req' = req]_vars
    /\ [][\A sid \in SessionIds :
              conversation_sessions[sid] = NoObj /\ conversation_sessions'[sid] # NoObj =>
                  \E r \in Reqs :
                      /\ Starts(r) /\ req'[r].session_id = sid
                      /\ aux'[r].before = << >>
                      /\ Len(heap'[conversation_sessions'[sid]].messages) = 1]_vars
    /\ [](last_op.op = "session_info" =>
              last_op.result.info[1].exists =
                  (conversation_sessions[last_op.session_id] # NoObj))

\* a request is streaming on a session that a reset has taken out of the
\* store, and session_info has just answered exists = false for its id
C21_Witness ==
    \E r \in Reqs :
        /\ req[r].pc = "stream"
        /\ conversation_sessions[req[r].session_id] = NoObj
        /\ last_op.op = "session_info" /\ last_op.session_id = req[r].session_id
        /\ ~last_op.result.info[1].exists

\* the texts of the fragments of a backend's answer that are not empty
RECURSIVE NonEmptyTexts(_)
NonEmptyTexts(reply) ==
    IF reply = << >> THEN << >>
    ELSE (IF Head(reply) # << >> /\ Head(reply)[1] # EmptyText
          THEN <<Head(reply)[1]>> ELSE << >>) \o NonEmptyTexts(Tail(reply))

\* the first of the texts without its leading blanks, the others as they
\* are; a text with nothing left is not emitted
Normalized(texts) ==
    IF texts = << >> THEN << >>
    ELSE (IF lstrip(Head(texts)) # EmptyText THEN <<lstrip(Head(texts))>> ELSE << >>)
            \o Tail(texts)

\* C22: when the backend's stream has ended without an exception, the
\* content fragments emitted are the first non-empty fragment of the backend
\* without its leading blanks, followed by every later fragment as it is.
C22_FirstFragmentStripped ==
    \A r \in Reqs :
        Completed(r) /\ req[r].failure = "none" /\ "generation" \in calls[r] =>
            ChunksOf(r) = Normalized(NonEmptyTexts(req[r].reply))

(***************************************************************************)
(* One request to its end.  The server resumes generate() for as long as   *)
(* the client reads the response, so every step of a request that is       *)
(* enabled is eventually taken; a client is never bound to send a request  *)
(* or to drop one.  The pattern table may be missing from the deployment.  *)
(***************************************************************************)
NextLive ==
    \/ DoStreamQuery
    \/ Bootstrap(1)
    \/ DoStreamAsk
    \/ StreamStep(1)
    \/ Final(1)
    \/ Cancel(1)

SpecLive ==
    /\ Init
    /\ [][NextLive]_vars
    /\ WF_vars(Bootstrap(1))
    /\ WF_vars(DoStreamAsk)
    /\ WF_vars(StreamStep(1))
    /\ WF_vars(Final(1))

\* C23: a request that is not cancelled ends with the reference-list event,
\* emitted exactly once, whichever step fails; and the request runs the
\* orchestrator, hence the generation backend, once.
C23_TerminalEventOnce ==
    /\ \A r \in Reqs :
          (req[r].pc = "boot") ~>
              (req[r].pc = "cancelled" \/ Len(LinksEventsOf(r)) = 1)
    /\ [](\A r \in Reqs : Len(LinksEventsOf(r)) <= 1)
    /\ [][\A r \in Reqs :
            "generation" \in calls[r] =>
                calls'[r] = calls[r] /\ req'[r].pc # "ask"]_vars

\* the failures that end a request before the generation backend is reached
EarlyFailures == {"index unavailable", "no passages", "missing template", "unsupported provider"}

\* the message ask_question_stream yields on each of them
Diagnostic(kind) ==
    CASE kind = "index unavailable" -> ErrNoCollection
      [] kind = "no passages" -> ErrNoDocuments
      [] kind = "missing template" -> ErrNoTemplate
      [] kind = "unsupported provider" -> ErrSupplier

\* C24: a request that finds the index unavailable, no passage, no prompt
\* template or an unknown model supplier emits exactly one content fragment,
\* the diagnostic message of that failure, and never calls the generation
\* backend.
C24_DiagnosticWithoutGeneration ==
    \A r \in Reqs :
        req[r].failure \in EarlyFailures =>
            /\ ChunksOf(r) = <<Diagnostic(req[r].failure)>>
            /\ "generation" \notin calls[r]

\* each of the four failures has ended a request
C24_Witness ==
    /\ Completed(1)
    /\ req[1].failure \in EarlyFailures
    /\ Len(ChunksOf(1)) = 1

(***************************************************************************)
(* One request on questions of every decision of the gate                  *)
(***************************************************************************)
QSupplement == JoinWords(<<"un", "supplement", "utile">>)
QNumeric == JoinWords(<<"combien", "de", "grammes">>)

DoPromptQuery ==
    \E question \in {QAllow, QSupplement, QNumeric, QRefuse}, language \in {"fr", "en"} :
        query_agent(1, question, language, NoId)

NextPrompt ==
    \/ DoPromptQuery
    \/ Bootstrap(1)
    \/ DoStreamAsk
    \/ StreamStep(1)
    \/ Final(1)

SpecPrompt == InitLoaded /\ [][NextPrompt]_vars

\* C25: the prompt handed to the generation backend holds the text of the
\* additional constraints when the gate decided allow_with_constraints, and
\* does not hold it when the gate decided allow.
C25_ConstraintTextInPrompt ==
    \A r \in Reqs :
        "generation" \in calls[r] =>
            /\ req[r].decision = "allow_with_constraints" =>
                    Contains(req[r].prompt, SystemSuffix)
            /\ req[r].decision = "allow" => ~Contains(req[r].prompt, SystemSuffix)

(***************************************************************************)
(* One request on a deployment whose pattern table is whole, is missing,   *)
(* or holds the English entry only                                         *)
(***************************************************************************)
PatternsEnOnly == [en |-> PatternsData.en]

InitTable ==
    /\ refusal_patterns_file \in {File(PatternsData), File(PatternsEnOnly), NoFile}
    /\ refusal_responses_file = File(ResponsesData)
    /\ g_question = EmptyText
    /\ g_language = "fr"
    /\ g_result = << >>
    /\ InitStore

DoTableQuery ==
    \E question \in {QAllow, QRefuse, QSupplement}, language \in Languages :
        query_agent(1, question, language, NoId)

DoTableAsk == \E env \in {EnvOK(ResPlain, "openai", ReplyPlain, FALSE), EnvDown} : Ask(1, env)

NextTable ==
    \/ DoTableQuery
    \/ Bootstrap(1)
    \/ DoTableAsk
    \/ StreamStep(1)
    \/ Final(1)

SpecTable == InitTable /\ [][NextTable]_vars

\* the gate has been run for the request
Gated(r) == req[r].pc \in {"stream", "final", "done", "failed"}

\* the gate had no pattern to match the request against
NoPatterns(r) ==
    \/ ~refusal_patterns_file.exists
    \/ /\ req[r].language \notin DOMAIN refusal_patterns_file.data
       /\ get_patterns_for_language(req[r].language) = << >>

\* C26: a request whose language has no patterns, the table being missing
\* or without an entry for it, is not decided allow and does not reach the
\* generation backend.
C26_FailClosed ==
    \A r \in Reqs :
        Gated(r) /\ NoPatterns(r) =>
            /\ ~GateAllowed(r)
            /\ "generation" \notin calls[r]

\* what generate does with a refused turn: the turn id is in the session's
\* refusal set and the session holds neither turn of the request
HandledAsRefusal(r) ==
    /\ uuid4(r) \in SessionOf(r).refusals
    /\ \A i \in 1..Len(SessionOf(r).messages) : SessionOf(r).messages[i].turn # r

\* C27: a completed request has been handled as a refusal exactly when the
\* gate decided refuse for its question, whatever the generation backend
\* delivered, and the marker is never among the content it emitted.
C27_RefusalIffGateRefused ==
    \A r \in Reqs :
        Completed(r) =>
            /\ HandledAsRefusal(r) <=> GateRefused(r)
            /\ \A i \in 1..Len(ChunksOf(r)) : ChunksOf(r)[i] # REFUSAL_MARKER

\* the history block made of the up to 6 last entries of `history` that are
\* not request r's own
BlockWithout(history, r) ==
    LET entries == LastEntries(SelectSeq(history, LAMBDA msg : msg.turn # r), 6)
    IN  IF entries = << >> THEN EmptyText
        ELSE <<"HISTORIQUE DE LA CONVERSATION:", "\n">> \o history_lines(entries)

\* C28: whatever the interleaving of the requests on one session id, the
\* history block a request assembles is made of the last entries of the
\* session's history without the request's own user turn: its own question
\* is the entry left out, and no other request's turn is.
C28_OwnTurnLeftOut ==
    [][\A r \in Reqs :
          req[r].pc = "ask" /\ req'[r].pc # "ask" =>
              req'[r].history_text = BlockWithout(heap[req[r].session].messages, r)]_vars

(***************************************************************************)
(* The sweep step by step.  query_agent is a coroutine: its call of        *)
(* get_or_create_session, the sweep included, runs on the event loop's     *)
(* thread, one handler at a time.  reset_session_endpoint is a plain       *)
(* function, which the server runs on a worker thread: a reset may fall    *)
(* between any two steps of the sweep.  The clock's hour does not change   *)
(* while a handler runs.                                                   *)
(***************************************************************************)
MinOf(S) == CHOOSE x \in S : \A y \in S : x <= y

\* the event loop is inside query_agent
InHandler ==
    \/ sweep.pc \in {"iterate", "delete"}
    \/ sweep.pc = "done" /\ req[sweep.r].pc = "idle"

SweepFrame ==
    /\ last_op' = NoOp
    /\ UNCHANGED <<question_log_lock, log_calls, refusal_patterns_file,
                   refusal_responses_file, g_question, g_language, g_result, heap, now,
                   req, events, calls, question_log, aux>>

\* clean_old_sessions is entered for request r: `now`, and the iterator of
\* conversation_sessions.items()
SweepBegin(r, sid_in) ==
    /\ ~InHandler
    /\ req[r].pc = "idle"
    /\ \A q \in Reqs : q < r => req[q].pc # "idle"
    /\ sweep' = [pc |-> "iterate", r |-> r, sid_in |-> sid_in, t |-> now,
                 used |-> Cardinality(StoreKeys(conversation_sessions)),
                 todo |-> StoreKeys(conversation_sessions),
                 expired_sessions |-> {}, error |-> "none"]
    /\ UNCHANGED conversation_sessions
    /\ SweepFrame

\* one step of the list comprehension: the iterator's next(), which raises
\* when the dict's size is no longer the one it started with, and the test
\* of the item
SweepIterate ==
    /\ sweep.pc = "iterate"
    /\ sweep' =
          IF Cardinality(StoreKeys(conversation_sessions)) # sweep.used
          THEN [sweep EXCEPT !.pc = "raised", !.error = "RuntimeError"]
          ELSE IF sweep.todo = {}
          THEN [sweep EXCEPT !.pc = "delete"]
          ELSE LET sid == MinOf(sweep.todo)
                   session == heap[conversation_sessions[sid]]
               IN  [sweep EXCEPT
                      !.todo = @ \ {sid},
                      !.expired_sessions =
                          IF sweep.t - session.last_activity > SESSION_TIMEOUT
                          THEN @ \cup {sid} ELSE @]
    /\ UNCHANGED conversation_sessions
    /\ SweepFrame

\* one step of the deleting loop: del conversation_sessions[sid]
SweepDelete ==
    /\ sweep.pc = "delete"
    /\ IF sweep.expired_sessions = {}
       THEN /\ sweep' = [sweep EXCEPT !.pc = "done"]
            /\ UNCHANGED conversation_sessions
       ELSE LET sid == MinOf(sweep.expired_sessions)
            IN  IF conversation_sessions[sid] = NoObj
                THEN /\ sweep' = [sweep EXCEPT !.pc = "raised", !.error = "KeyError"]
                     /\ UNCHANGED conversation_sessions
                ELSE /\ sweep' = [sweep EXCEPT !.expired_sessions = @ \ {sid}]
                     /\ conversation_sessions' =
                            [conversation_sessions EXCEPT ![sid] = NoObj]
    /\ SweepFrame

DoRaceBegin == \E r \in Reqs, sid_in \in KnownSessionIds : SweepBegin(r, sid_in)

\* the rest of the handler, once the sweep has returned
DoRaceQuery ==
    /\ sweep.pc = "done"
    /\ req[sweep.r].pc = "idle"
    /\ query_agent(sweep.r, QAllow, "fr", sweep.sid_in)

DoRaceTick == ~InHandler /\ Tick

NextRace ==
    \/ DoRaceBegin
    \/ SweepIterate
    \/ SweepDelete
    \/ DoRaceQuery
    \/ DoResetSession
    \/ DoRaceTick

SpecRace == InitLoaded /\ [][NextRace]_vars

\* C29: the sweep never fails, whatever reset falls between its steps: the
\* store has the size the sweep's iteration started with at each of its
\* steps, and each id the sweep has selected is in the store when the sweep
\* deletes it.
C29_SweepNeverFails ==
    /\ sweep.pc # "raised"
    /\ sweep.pc = "iterate" => Cardinality(StoreKeys(conversation_sessions)) = sweep.used
    /\ sweep.pc = "delete" => sweep.expired_sessions \subseteq StoreKeys(conversation_sessions)

\* the lookup just answered {session_id, question_id} from the session's
\* memory with the non-empty list `pmids`
AnsweredFromMemory(session_id, question_id, question, pmids) ==
    /\ last_op.op = "pmids"
    /\ last_op.session_id = session_id
    /\ last_op.question_id = question_id
    /\ last_op.question = question
    /\ last_op.result.status = "ok"
    /\ ~last_op.result.retrieved
    /\ last_op.result.pmids = pmids
    /\ pmids # << >>

\* C30: once a lookup has returned a non-empty list for a session id and a
\* turn id, a lookup for the same pair made after the next operation, the
\* session still being in the store, returns the same list.
C30_LookupStable ==
    [][\A session_id \in SessionIds, question_id \in Reqs, question \in LookupQuestions :
          \A pmids \in {last_op.result.pmids} :
            AnsweredFromMemory(session_id, question_id, question, pmids)
            /\ conversation_sessions'[session_id] # NoObj
            => \A env \in LookupEnvs :
                  (get_pmids_api(session_id, question_id, question, env, << >>).pmids)'
                      = pmids]_vars
====
